---- MODULE Spec2Model ----
(***************************************************************************)
(* Model of the connection actors and the request-dispatch layer of        *)
(* lib-lualib's SQL gateways (lua_sqlx.rs and lua_tiberius.rs): the        *)
(* registry of named connection handles, the bounded submission queue,     *)
(* the in-flight counter, the per-connection actor with its retry policy,  *)
(* the transaction staging object and the effect of the drivers'           *)
(* transaction / batch execution on the database.                          *)
(***************************************************************************)
EXTENDS Integers, Sequences, FiniteSets, TLC

(* ------------------------------ bounds -------------------------------- *)
\* calls (connect, query, execute, push, transaction, close) made in one run
MaxCalls == 3
\* failures the driver may report for one unattended operation
MaxFail == 1
\* calls made, and failures one unattended operation may see, in SpecRetry
RetryCalls == 2
RetryFail == 2
\* calls made in one run of SpecTwin
TwinCalls == 2
\* calls made in one run of SpecStaged
StagedCalls == 2
\* results waiting in the caller's mailbox in SpecDecode
MaxDecode == 2
\* calls made in one run of SpecBind
BindCalls == 1
\* calls made, and failures of one unattended request, in one run of SpecIndep
IndepCalls == 2
IndepFail == 1
\* SpecBlocked: calls of the callers, requests the actor dequeues, failures of
\* the unattended request
BlockedCalls == 2
BlockedRecv == 3
BlockedFail == 2
\* SpecDiscard: calls of the callers, requests the actor dequeues, failures of
\* the unattended request
DiscardCalls == 2
DiscardRecv == 1
DiscardFail == 1
\* rows of a result set handed to process_rows in SpecRows
MaxRows == 2
\* free slots left in the pre-filled queue of SpecFull
FullSlack == 1
\* calls made in one run of SpecFull
FullCalls == 1
\* operations the actors dequeue in one run of SpecFull
FullRecv == 1

(* ------------------------- program constants -------------------------- *)
\* mpsc::channel(100)
Capacity == 100
\* tokio::time::sleep(Duration::from_secs(1)) between two attempts
RetrySleep == 1

\* the two libraries; each has a registry, handles and actors of its own
Backends == {"sqlx", "tiberius"}
Names == {"a", "b"}
\* two services call the library: service 1 connects, stages and submits
\* transactions and closes; service 2 submits queries and executes
Owners == {1, 2}
Admin == 1
Client == 2
Sessions == {0, 1}
\* every connect call gets the next handle id
HandleIds == 1 .. (MaxCalls + 1)

NoHandle == [backend |-> "none", name |-> "none"]
NoOp == [id |-> 0, kind |-> "None", owner |-> 0, session |-> 0, qs |-> << >>]
Idle == [h |-> 0, session |-> 0]

VARIABLES
  lib,           \* the library the run is about: "sqlx" or "tiberius"
  registry,      \* DATABASE_CONNECTIONS(S): name -> handle id, 0 = absent
  pending,       \* spawned connect tasks that have not resolved yet
  nconn,         \* connect calls made so far; the next handle id is nconn + 1
  hinfo,         \* handle id -> backend and name it was created for
  queue,         \* handle id -> the mpsc channel's buffered requests
  counter,       \* handle id -> the AtomicI64 in-flight counter
  actor,         \* handle id -> "None" | "Inserted" | "Recv" | "Exec" | "Sleep" | "Terminated"
  cur,           \* handle id -> the request the actor is executing
  failed_times,  \* handle id -> the handler's failed_times local
  db,            \* handle id -> statements that took effect through the connection
  mailbox,       \* owner -> results delivered by moon_send, in delivery order
  log,           \* handle id -> moon_log entries written by the actor
  pend,          \* owner -> the handle whose counter the caller is about to add to
  ret,           \* the value returned by the last call that returned
  stage,         \* owner -> TransactionQuerys.querys of the caller's staging object
  nops,          \* requests enqueued so far (the id of the last one)
  budget,        \* calls and dequeues the run may still make, failures one request may see
  enq,           \* history: handle id -> requests enqueued on it, in order
  started,       \* history: handle id -> ids of the requests dequeued for execution
  attempts,      \* history: handle id -> driver calls made, in order
  done,          \* history: handle id -> requests that reached a terminal outcome
  sleeping       \* handle id -> the seconds of the sleep the handler is in, 0 when it is in none

vars == << lib, registry, pending, nconn, hinfo, queue, counter, actor, cur,
           failed_times, db, mailbox, log, pend, ret, stage, nops, budget,
           enq, started, attempts, done, sleeping >>

(* ----------------------------- helpers -------------------------------- *)
Range(s) == { s[i] : i \in 1 .. Len(s) }

Last(s) == s[Len(s)]

Sqls(qs) == [ i \in 1 .. Len(qs) |-> qs[i].sql ]

Created(h) == hinfo[h] # NoHandle

Active(h) == actor[h] \in {"Recv", "Exec", "Sleep"}

(* ------------------------- bind values -------------------------------- *)
\* Lua values a caller may pass as bind arguments
LuaInt7 == [t |-> "integer", v |-> "7"]
LuaNilV == [t |-> "nil", v |-> ""]

\* a classification that binds a value of any other type as text
get_query_param_lenient(val) ==
  CASE val.t = "boolean" -> [ok |-> TRUE, tag |-> "Bool", v |-> val.v]
    [] val.t = "number"  -> [ok |-> TRUE, tag |-> "Float", v |-> val.v]
    [] val.t = "integer" -> [ok |-> TRUE, tag |-> "Int", v |-> val.v]
    [] OTHER -> [ok |-> TRUE, tag |-> "Text", v |-> val.v]

\* a classification that takes every string opening with { or [ for JSON
\* without parsing it
get_query_param_eager(val) ==
  CASE val.t = "boolean" -> [ok |-> TRUE, tag |-> "Bool", v |-> val.v]
    [] val.t = "number"  -> [ok |-> TRUE, tag |-> "Float", v |-> val.v]
    [] val.t = "integer" -> [ok |-> TRUE, tag |-> "Int", v |-> val.v]
    [] val.t = "string"  ->
         [ok |-> TRUE, v |-> val.v, tag |-> IF val.brace THEN "Json" ELSE "Text"]
    [] val.t = "table"   ->
         IF ~ val.encodes
         THEN [ok |-> FALSE, tag |-> "Raise", v |-> "encode_table"]
         ELSE [ok |-> TRUE, v |-> val.v,
               tag |-> IF val.brace /\ val.json THEN "Json" ELSE "Bytes"]
    [] OTHER -> [ok |-> FALSE, tag |-> "Err", v |-> "unsupport value type"]

\* get_query_param: the classification of one Lua value. A string or table
\* value carries brace (its text, or its encoding, starts with { or [) and
\* json (that text parses as JSON); a table also carries encodes (encode_table
\* returns Ok). tag Err is the Err it returns, tag Raise the lua_error it
\* raises when encode_table fails
get_query_param(val) ==
  CASE val.t = "boolean" -> [ok |-> TRUE, tag |-> "Bool", v |-> val.v]
    [] val.t = "number"  -> [ok |-> TRUE, tag |-> "Float", v |-> val.v]
    [] val.t = "integer" -> [ok |-> TRUE, tag |-> "Int", v |-> val.v]
    [] val.t = "string"  ->
         [ok |-> TRUE, v |-> val.v,
          tag |-> IF val.brace /\ val.json THEN "Json" ELSE "Text"]
    [] val.t = "table"   ->
         IF ~ val.encodes
         THEN [ok |-> FALSE, tag |-> "Raise", v |-> "encode_table"]
         ELSE [ok |-> TRUE, v |-> val.v,
               tag |-> IF val.brace /\ val.json THEN "Json" ELSE "Bytes"]
    [] OTHER -> [ok |-> FALSE, tag |-> "Err", v |-> "unsupport value type"]

\* the loop of query / execute / push over the bind arguments: it stops at
\* the first argument that is not classified; raise tells that this argument
\* raised a Lua error instead of returning Err
BuildParams(args) ==
  LET bad == { i \in 1 .. Len(args) : ~ get_query_param(args[i]).ok }
      first == CHOOSE i \in bad : \A k \in bad : i <= k
  IN IF bad # {}
     THEN [ok |-> FALSE, binds |-> << >>,
           raise |-> get_query_param(args[first]).tag = "Raise"]
     ELSE [ok |-> TRUE, raise |-> FALSE,
           binds |-> [ i \in 1 .. Len(args) |->
                         [tag |-> get_query_param(args[i]).tag,
                          v |-> get_query_param(args[i]).v] ]]

\* the Lua values callers bind in SpecBind, one or more of every Lua type
LuaString(v, brace, json) == [t |-> "string", v |-> v, brace |-> brace, json |-> json]
LuaTable(v, encodes, json) ==
  [t |-> "table", v |-> v, encodes |-> encodes, brace |-> TRUE, json |-> json]
BindValues ==
  { [t |-> "boolean", v |-> "true"], [t |-> "number", v |-> "1.5"], LuaInt7,
    LuaString("hello", FALSE, FALSE), LuaString("", FALSE, FALSE),
    LuaString("{\"a\":1}", TRUE, TRUE), LuaString("[1,2]", TRUE, TRUE),
    LuaString("{not json", TRUE, FALSE),
    LuaTable("table {a=1}", TRUE, TRUE), LuaTable("table {a=nan}", TRUE, FALSE),
    LuaTable("table {f=function}", FALSE, FALSE),
    LuaNilV, [t |-> "function", v |-> "print"] }
BindInputs == { [sql |-> "s1", args |-> << x >>] : x \in BindValues }
                 \cup { [sql |-> "s2", args |-> << LuaInt7, x >>] : x \in BindValues }

\* the (sql, bind arguments) pairs callers pass to query and execute
QueryInputs == { [sql |-> "s2", args |-> << LuaInt7 >>],
                 [sql |-> "s1", args |-> << LuaNilV >>],
                 [sql |-> "s2", args |-> << LuaInt7, LuaNilV >>] }

\* the (sql, bind arguments) pairs callers pass to push
PushInputs == { [sql |-> "s1", args |-> << >>],
                [sql |-> "s2", args |-> << LuaInt7 >>],
                [sql |-> "s1", args |-> << LuaNilV >>] }

\* the session callers pass to connect
ConnectSession == 1

\* values returned to the Lua caller: the session, true, or {kind, message}
SessionRet(v) == [kind |-> "SESSION", message |-> "", value |-> v]
TrueRet == [kind |-> "TRUE", message |-> "", value |-> 0]
ErrRet(m) == [kind |-> "ERROR", message |-> m, value |-> 0]
NoRet == [kind |-> "NONE", message |-> "", value |-> 0]
\* laux::lua_error: the call does not return, it raises a Lua error
RaiseRet(m) == [kind |-> "LUA_ERROR", message |-> m, value |-> 0]

(* ------------------------------ Init ---------------------------------- *)
InitCommon ==
  /\ pending = {}
  /\ sleeping = [h \in HandleIds |-> 0]
  /\ cur = [h \in HandleIds |-> NoOp]
  /\ failed_times = [h \in HandleIds |-> 0]
  /\ db = [h \in HandleIds |-> << >>]
  /\ log = [h \in HandleIds |-> << >>]
  /\ pend = [o \in Owners |-> Idle]
  /\ stage = [o \in Owners |-> << >>]
  /\ started = [h \in HandleIds |-> << >>]
  /\ attempts = [h \in HandleIds |-> << >>]
  /\ done = [h \in HandleIds |-> << >>]

\* the requests that fill the queue of a connection whose actor has not run
\* since k queries were submitted to it, the first of them unattended
Prefill(k) ==
  [ i \in 1 .. k |->
      [id |-> i, kind |-> "Query", owner |-> Client,
       session |-> IF i = 1 THEN 0 ELSE 1,
       qs |-> << [sql |-> "s2", binds |-> BuildParams(<< LuaInt7 >>).binds] >>] ]

\* live: connection "a" has been established by the Admin service (handle 1);
\* k: the queries submitted to it since, none of them dequeued yet
InitWith(calls, recvs, fails, live, k) ==
  /\ InitCommon
  /\ lib \in Backends
  /\ registry = [n \in Names |-> IF live /\ n = "a" THEN 1 ELSE 0]
  /\ nconn = IF live THEN 1 ELSE 0
  /\ hinfo = [h \in HandleIds |->
       IF live /\ h = 1 THEN [backend |-> lib, name |-> "a"] ELSE NoHandle]
  /\ queue = [h \in HandleIds |-> IF h = 1 THEN Prefill(k) ELSE << >>]
  /\ counter = [h \in HandleIds |-> IF h = 1 THEN k ELSE 0]
  /\ actor = [h \in HandleIds |-> IF live /\ h = 1 THEN "Recv" ELSE "None"]
  /\ mailbox = [o \in Owners |->
       IF live /\ o = Admin
       THEN << [session |-> ConnectSession, kind |-> "Connect", id |-> 0, h |-> 1] >>
       ELSE << >>]
  /\ ret = NoRet
  /\ nops = k
  /\ enq = [h \in HandleIds |-> IF h = 1 THEN Prefill(k) ELSE << >>]
  /\ budget = [calls |-> calls, recv |-> recvs, fail |-> fails]

\* the state after the library is loaded: an empty registry, no connection
Init == InitWith(MaxCalls, MaxCalls, MaxFail, FALSE, 0)

\* the state after connect(.., "a") has succeeded
InitLive == InitWith(MaxCalls, MaxCalls, MaxFail, TRUE, 0)

\* the state after connect(.., "a") has succeeded, for runs with few calls
\* and more failures
InitRetry == InitWith(RetryCalls, RetryCalls, RetryFail, TRUE, 0)

\* the state after connect(.., "a") has succeeded twice: handle 1 is held by
\* the callers that looked it up before the second connect, handle 2 is the
\* one the registry returns, and each has its actor
InitTwin ==
  /\ InitCommon
  /\ lib \in Backends
  /\ registry = [n \in Names |-> IF n = "a" THEN 2 ELSE 0]
  /\ nconn = 2
  /\ hinfo = [h \in HandleIds |->
       IF h \in {1, 2} THEN [backend |-> lib, name |-> "a"] ELSE NoHandle]
  /\ queue = [h \in HandleIds |-> << >>]
  /\ counter = [h \in HandleIds |-> 0]
  /\ actor = [h \in HandleIds |-> IF h \in {1, 2} THEN "Recv" ELSE "None"]
  /\ mailbox = [o \in Owners |->
       IF o = Admin
       THEN << [session |-> ConnectSession, kind |-> "Connect", id |-> 0, h |-> 1],
               [session |-> ConnectSession, kind |-> "Connect", id |-> 0, h |-> 2] >>
       ELSE << >>]
  /\ ret = NoRet
  /\ nops = 0
  /\ enq = [h \in HandleIds |-> << >>]
  /\ budget = [calls |-> TwinCalls, recv |-> TwinCalls, fail |-> MaxFail]

\* the state after connect(.., "a") has succeeded and the Admin service has
\* pushed the statement s1 to its staging object
InitStaged ==
  /\ pending = {}
  /\ cur = [h \in HandleIds |-> NoOp]
  /\ failed_times = [h \in HandleIds |-> 0]
  /\ db = [h \in HandleIds |-> << >>]
  /\ log = [h \in HandleIds |-> << >>]
  /\ pend = [o \in Owners |-> Idle]
  /\ stage = [o \in Owners |->
       IF o = Admin THEN << [sql |-> "s1", binds |-> BuildParams(<< >>).binds] >>
       ELSE << >>]
  /\ started = [h \in HandleIds |-> << >>]
  /\ attempts = [h \in HandleIds |-> << >>]
  /\ done = [h \in HandleIds |-> << >>]
  /\ sleeping = [h \in HandleIds |-> 0]
  /\ lib \in Backends
  /\ registry = [n \in Names |-> IF n = "a" THEN 1 ELSE 0]
  /\ nconn = 1
  /\ hinfo = [h \in HandleIds |->
       IF h = 1 THEN [backend |-> lib, name |-> "a"] ELSE NoHandle]
  /\ queue = [h \in HandleIds |-> << >>]
  /\ counter = [h \in HandleIds |-> 0]
  /\ actor = [h \in HandleIds |-> IF h = 1 THEN "Recv" ELSE "None"]
  /\ mailbox = [o \in Owners |->
       IF o = Admin
       THEN << [session |-> ConnectSession, kind |-> "Connect", id |-> 0, h |-> 1] >>
       ELSE << >>]
  /\ ret = NoRet
  /\ nops = 0
  /\ enq = [h \in HandleIds |-> << >>]
  /\ budget = [calls |-> StagedCalls, recv |-> StagedCalls, fail |-> MaxFail]

\* connection "a" with its queue full, or nearly so
InitFull ==
  \E k \in (Capacity - FullSlack) .. Capacity : InitWith(FullCalls, FullRecv, MaxFail, TRUE, k)

(* ------------------------- connection registry ------------------------ *)
\* a lookup that does not return the handle of a terminated connection
find_connection_live(n) ==
  IF registry[n] # 0 /\ actor[registry[n]] = "Terminated" THEN 0 ELSE registry[n]

\* find_connection: the handle registered under a name, 0 when absent
find_connection(n) == registry[n]

\* connect: spawns the connect task and returns the session
connect(o, s, n) ==
  /\ pend[o] = Idle
  /\ budget.calls > 0
  /\ budget' = [budget EXCEPT !.calls = @ - 1]
  /\ nconn' = nconn + 1
  /\ pending' = pending \cup
       { [id |-> nconn + 1, backend |-> lib, name |-> n, owner |-> o, session |-> s] }
  /\ ret' = SessionRet(s)
  /\ UNCHANGED << lib, registry, hinfo, queue, counter, actor, cur, failed_times, db,
                  mailbox, log, pend, stage, nops, enq, started,
                  attempts, done, sleeping >>

\* a connect task that creates the handle but leaves the registry as it was
ConnectOkUnregistered(c) ==
  /\ c \in pending
  /\ actor[c.id] = "None"
  /\ hinfo' = [hinfo EXCEPT ![c.id] = [backend |-> c.backend, name |-> c.name]]
  /\ queue' = [queue EXCEPT ![c.id] = << >>]
  /\ counter' = [counter EXCEPT ![c.id] = 0]
  /\ registry' = registry
  /\ actor' = [actor EXCEPT ![c.id] = "Inserted"]
  /\ UNCHANGED << ret, lib, pending, nconn, cur, failed_times, db, mailbox, log,
                  pend, stage, nops, budget, enq, started, attempts, done, sleeping >>

\* a connect task that shuts down the actor of the handle it replaces
ConnectOkReplace(c) ==
  /\ c \in pending
  /\ actor[c.id] = "None"
  /\ hinfo' = [hinfo EXCEPT ![c.id] = [backend |-> c.backend, name |-> c.name]]
  /\ queue' = [queue EXCEPT ![c.id] = << >>]
  /\ counter' = [counter EXCEPT ![c.id] = 0]
  /\ registry' = [registry EXCEPT ![c.name] = c.id]
  /\ actor' = [h \in HandleIds |->
       IF h = c.id THEN "Inserted"
       ELSE IF h = registry[c.name] /\ actor[h] = "Recv" THEN "Terminated"
       ELSE actor[h]]
  /\ UNCHANGED << ret, lib, pending, nconn, cur, failed_times, db, mailbox, log,
                  pend, stage, nops, budget, enq, started, attempts, done, sleeping >>

\* the Ok arm of the connect task, first part: new channel and counter,
\* inserted under the name (overwriting what the name held)
ConnectOk(c) ==
  /\ c \in pending
  /\ actor[c.id] = "None"
  /\ hinfo' = [hinfo EXCEPT ![c.id] = [backend |-> c.backend, name |-> c.name]]
  /\ queue' = [queue EXCEPT ![c.id] = << >>]
  /\ counter' = [counter EXCEPT ![c.id] = 0]
  /\ registry' = [registry EXCEPT ![c.name] = c.id]
  /\ actor' = [actor EXCEPT ![c.id] = "Inserted"]
  /\ UNCHANGED << ret, lib, pending, nconn, cur, failed_times, db, mailbox, log,
                  pend, stage, nops, budget, enq, started, attempts, done, sleeping >>

\* the Ok arm, second part: the Connect notification; the task then calls
\* database_handler, which goes to its first rx.recv()
ConnectNotify(c) ==
  /\ c \in pending
  /\ actor[c.id] = "Inserted"
  /\ pending' = pending \ {c}
  /\ mailbox' = [mailbox EXCEPT ![c.owner] =
       Append(@, [session |-> c.session, kind |-> "Connect", id |-> 0, h |-> c.id])]
  /\ actor' = [actor EXCEPT ![c.id] = "Recv"]
  /\ UNCHANGED << ret, lib, registry, nconn, hinfo, queue, counter, cur,
                  failed_times, db, log, pend, stage, nops, budget, enq,
                  started, attempts, done, sleeping >>

\* an Err arm that also removes what the name held
ConnectErrEvict(c) ==
  /\ c \in pending
  /\ actor[c.id] = "None"
  /\ pending' = pending \ {c}
  /\ registry' = [registry EXCEPT ![c.name] = 0]
  /\ mailbox' = [mailbox EXCEPT ![c.owner] =
       Append(@, [session |-> c.session, kind |-> "Timeout", id |-> 0, h |-> 0])]
  /\ UNCHANGED << ret, lib, nconn, hinfo, queue, counter, actor, cur,
                  failed_times, db, log, pend, stage, nops, budget, enq,
                  started, attempts, done, sleeping >>

\* the Err arm of the connect task: a Timeout notification and nothing else
ConnectErr(c) ==
  /\ c \in pending
  /\ actor[c.id] = "None"
  /\ pending' = pending \ {c}
  /\ mailbox' = [mailbox EXCEPT ![c.owner] =
       Append(@, [session |-> c.session, kind |-> "Timeout", id |-> 0, h |-> 0])]
  /\ UNCHANGED << ret, lib, registry, nconn, hinfo, queue, counter, actor, cur,
                  failed_times, db, log, pend, stage, nops, budget, enq,
                  started, attempts, done, sleeping >>

(* ----------------------------- submitters ----------------------------- *)
\* a sender on an unbounded channel: refused only when the receiver is gone
try_send_unbounded(h) ==
  IF actor[h] = "Terminated" THEN "channel closed" ELSE "ok"

\* a sender whose channel stays open when the receiver is gone
try_send_open(h) ==
  IF Len(queue[h]) >= Capacity THEN "no available capacity" ELSE "ok"

\* tx.try_send: refused when the receiver is gone or no permit is free
try_send(h) ==
  IF actor[h] = "Terminated" THEN "channel closed"
  ELSE IF Len(queue[h]) >= Capacity THEN "no available capacity"
  ELSE "ok"

MkOp(kind, o, s, qs) ==
  [id |-> nops + 1, kind |-> kind, owner |-> o, session |-> s, qs |-> qs]

\* the match on try_send of query / execute / transaction: on Ok the request is
\* in the queue and the caller goes on to fetch_add; on Err it returns the error
Submit(o, h, op) ==
  IF try_send(h) = "ok"
  THEN /\ queue' = [queue EXCEPT ![h] = Append(@, op)]
       /\ enq' = [enq EXCEPT ![h] = Append(@, op)]
       /\ nops' = nops + 1
       /\ pend' = [pend EXCEPT ![o] = [h |-> h, session |-> op.session]]
       /\ ret' = ret
  ELSE /\ ret' = ErrRet(try_send(h))
       /\ UNCHANGED << queue, enq, nops, pend >>

\* query (both backends) and execute (tiberius only), up to the try_send
query(o, h, s, in, kind) ==
  /\ pend[o] = Idle
  /\ budget.calls > 0
  /\ Created(h)
  /\ kind = "Execute" => hinfo[h].backend = "tiberius"
  /\ budget' = [budget EXCEPT !.calls = @ - 1]
  /\ IF BuildParams(in.args).ok
     THEN Submit(o, h, MkOp(kind, o, s,
            << [sql |-> in.sql, binds |-> BuildParams(in.args).binds] >>))
     ELSE /\ ret' = IF BuildParams(in.args).raise
                   THEN RaiseRet("encode_table")
                   ELSE ErrRet("get_query_param")
          /\ UNCHANGED << queue, enq, nops, pend >>
  /\ UNCHANGED << lib, registry, pending, nconn, hinfo, counter, actor, cur,
                  failed_times, db, mailbox, log, stage, started, attempts, done, sleeping >>

\* the Ok arm after try_send: counter.fetch_add(1), return the session
fetch_add(o) ==
  /\ pend[o] # Idle
  /\ counter' = [counter EXCEPT ![pend[o].h] = @ + 1]
  /\ ret' = SessionRet(pend[o].session)
  /\ pend' = [pend EXCEPT ![o] = Idle]
  /\ UNCHANGED << lib, registry, pending, nconn, hinfo, queue, actor, cur,
                  failed_times, db, mailbox, log, stage, nops, budget, enq,
                  started, attempts, done, sleeping >>

\* push_transaction_query: append one query to the staging object
push_transaction_query(o, in) ==
  /\ pend[o] = Idle
  /\ budget.calls > 0
  /\ budget' = [budget EXCEPT !.calls = @ - 1]
  /\ IF BuildParams(in.args).ok
     THEN /\ stage' = [stage EXCEPT ![o] =
                Append(@, [sql |-> in.sql, binds |-> BuildParams(in.args).binds])]
          /\ ret' = NoRet
     ELSE /\ ret' = IF BuildParams(in.args).raise
                   THEN RaiseRet("encode_table")
                   ELSE RaiseRet("get_query_param")
          /\ stage' = stage
  /\ UNCHANGED << lib, registry, pending, nconn, hinfo, queue, counter, actor, cur,
                  failed_times, db, mailbox, log, pend, nops, enq, started,
                  attempts, done, sleeping >>

\* a transaction that sends a copy of the staged queries and keeps them staged
transaction_clone(o, h, s) ==
  /\ pend[o] = Idle
  /\ budget.calls > 0
  /\ Created(h)
  /\ budget' = [budget EXCEPT !.calls = @ - 1]
  /\ stage' = stage
  /\ Submit(o, h, MkOp("Transaction", o, s, stage[o]))
  /\ UNCHANGED << lib, registry, pending, nconn, hinfo, counter, actor, cur,
                  failed_times, db, mailbox, log, started, attempts, done, sleeping >>

\* transaction, up to the try_send: the staged queries are taken out of the
\* staging object (std::mem::take) whatever try_send answers
transaction(o, h, s) ==
  /\ pend[o] = Idle
  /\ budget.calls > 0
  /\ Created(h)
  /\ budget' = [budget EXCEPT !.calls = @ - 1]
  /\ stage' = [stage EXCEPT ![o] = << >>]
  /\ Submit(o, h, MkOp("Transaction", o, s, stage[o]))
  /\ UNCHANGED << lib, registry, pending, nconn, hinfo, counter, actor, cur,
                  failed_times, db, mailbox, log, started, attempts, done, sleeping >>

\* a close that counts the Close as in-flight work, as query counts a query
close_counted(o, h) ==
  /\ pend[o] = Idle
  /\ budget.calls > 0
  /\ Created(h)
  /\ budget' = [budget EXCEPT !.calls = @ - 1]
  /\ counter' = [counter EXCEPT ![h] = IF try_send(h) = "ok" THEN @ + 1 ELSE @]
  /\ IF try_send(h) = "ok"
     THEN /\ queue' = [queue EXCEPT ![h] = Append(@, MkOp("Close", 0, 0, << >>))]
          /\ enq' = [enq EXCEPT ![h] = Append(@, MkOp("Close", 0, 0, << >>))]
          /\ nops' = nops + 1
          /\ ret' = TrueRet
     ELSE /\ ret' = ErrRet(try_send(h))
          /\ UNCHANGED << queue, enq, nops >>
  /\ UNCHANGED << lib, registry, pending, nconn, hinfo, actor, cur,
                  failed_times, db, mailbox, log, pend, stage, started,
                  attempts, done, sleeping >>

\* close: try_send of Close; the counter is not touched
close(o, h) ==
  /\ pend[o] = Idle
  /\ budget.calls > 0
  /\ Created(h)
  /\ budget' = [budget EXCEPT !.calls = @ - 1]
  /\ IF try_send(h) = "ok"
     THEN /\ queue' = [queue EXCEPT ![h] = Append(@, MkOp("Close", 0, 0, << >>))]
          /\ enq' = [enq EXCEPT ![h] = Append(@, MkOp("Close", 0, 0, << >>))]
          /\ nops' = nops + 1
          /\ ret' = TrueRet
     ELSE /\ ret' = ErrRet(try_send(h))
          /\ UNCHANGED << queue, enq, nops >>
  /\ UNCHANGED << lib, registry, pending, nconn, hinfo, counter, actor, cur,
                  failed_times, db, mailbox, log, pend, stage, started,
                  attempts, done, sleeping >>

(* --------------------------- physical driver -------------------------- *)
\* DatabasePool::query / execute: one statement, which takes effect or fails
RunQuery(qs) ==
  { [ok |-> TRUE, applied |-> Sqls(qs)], [ok |-> FALSE, applied |-> << >>] }

\* sqlx DatabasePool::transaction: begin, execute each, commit. Step k is the
\* step that fails (0 = begin, Len + 1 = commit); the `?` drops the transaction
\* object, which rolls back the statements executed before it
SqlxTransaction(qs) ==
  { [ok |-> TRUE, applied |-> Sqls(qs)] } \cup
  { [ok |-> FALSE, applied |-> SubSeq(Sqls(qs), 1, 0)] : k \in 0 .. Len(qs) + 1 }

\* tiberius DatabasePool::batch_execute: each statement is executed on the
\* client on its own; statement k fails and the k - 1 before it stay applied
batch_execute(qs) ==
  { [ok |-> TRUE, applied |-> Sqls(qs)] } \cup
  { [ok |-> FALSE, applied |-> SubSeq(Sqls(qs), 1, k - 1)] : k \in 1 .. Len(qs) }

\* the driver call database_handler makes for a request
DriverOutcomes(backend, op) ==
  IF op.kind = "Transaction"
  THEN IF backend = "sqlx" THEN SqlxTransaction(op.qs) ELSE batch_execute(op.qs)
  ELSE RunQuery(op.qs)

\* the DatabaseResponse variant a successful request produces
ResponseKind(kind) ==
  CASE kind = "Query" -> "Rows"
    [] kind = "Execute" -> "Execute"
    [] OTHER -> "Transaction"

(* --------------------------- connection actor ------------------------- *)
\* a receiver that hands out the newest buffered request
recvLifo(q) == [op |-> q[Len(q)], rest |-> SubSeq(q, 1, Len(q) - 1)]

\* a receiver that loses the request behind the one it hands out
recvLossy(q) ==
  [op |-> Head(q), rest |-> IF Len(q) > 1 THEN Tail(Tail(q)) ELSE Tail(q)]

\* rx.recv(): the oldest buffered request
recv(q) == [op |-> Head(q), rest |-> Tail(q)]

\* a handle_result that swallows the error of an attended request
handle_result_silent(ft, session, ok) ==
  IF ok
  THEN [send |-> "result", info |-> ft > 0, error |-> FALSE, dec |-> 1,
        failed_times |-> ft, again |-> FALSE,
        first |-> "send", sleep |-> 0]
  ELSE IF session # 0
  THEN [send |-> "none", info |-> FALSE, error |-> FALSE, dec |-> 1,
        failed_times |-> ft, again |-> FALSE,
        first |-> "log", sleep |-> 0]
  ELSE [send |-> "none", info |-> FALSE, error |-> ft > 0, dec |-> 0,
        failed_times |-> ft + 1, again |-> TRUE,
        first |-> "log", sleep |-> RetrySleep]

\* a handle_result that also retries a failed attended request
handle_result_retry_all(ft, session, ok) ==
  IF ok
  THEN [send |-> "result", info |-> ft > 0, error |-> FALSE, dec |-> 1,
        failed_times |-> ft, again |-> FALSE,
        first |-> "send", sleep |-> 0]
  ELSE IF session # 0
  THEN [send |-> "error", info |-> FALSE, error |-> FALSE, dec |-> 1,
        failed_times |-> ft, again |-> ft = 0,
        first |-> "send", sleep |-> IF ft = 0 THEN RetrySleep ELSE 0]
  ELSE [send |-> "none", info |-> FALSE, error |-> ft > 0, dec |-> 0,
        failed_times |-> ft + 1, again |-> TRUE,
        first |-> "log", sleep |-> RetrySleep]

\* a handle_result that gives an unattended request up at its second failure
handle_result_give_up(ft, session, ok) ==
  IF ok
  THEN [send |-> "result", info |-> ft > 0, error |-> FALSE, dec |-> 1,
        failed_times |-> ft, again |-> FALSE,
        first |-> "send", sleep |-> 0]
  ELSE IF session # 0
  THEN [send |-> "error", info |-> FALSE, error |-> FALSE, dec |-> 1,
        failed_times |-> ft, again |-> FALSE,
        first |-> "send", sleep |-> 0]
  ELSE [send |-> "none", info |-> FALSE, error |-> ft > 0,
        dec |-> IF ft > 0 THEN 1 ELSE 0,
        failed_times |-> ft + 1, again |-> ft = 0,
        first |-> "log", sleep |-> IF ft = 0 THEN RetrySleep ELSE 0]

\* a handle_result that forgets the fetch_sub on the success path
handle_result_no_sub(ft, session, ok) ==
  IF ok
  THEN [send |-> "result", info |-> ft > 0, error |-> FALSE, dec |-> 0,
        failed_times |-> ft, again |-> FALSE,
        first |-> "send", sleep |-> 0]
  ELSE IF session # 0
  THEN [send |-> "error", info |-> FALSE, error |-> FALSE, dec |-> 1,
        failed_times |-> ft, again |-> FALSE,
        first |-> "send", sleep |-> 0]
  ELSE [send |-> "none", info |-> FALSE, error |-> ft > 0, dec |-> 0,
        failed_times |-> ft + 1, again |-> TRUE,
        first |-> "log", sleep |-> RetrySleep]

\* a handle_result that backs off longer after every failure
handle_result_backoff(ft, session, ok) ==
  IF ok
  THEN [send |-> "result", info |-> ft > 0, error |-> FALSE, dec |-> 1,
        failed_times |-> ft, again |-> FALSE,
        first |-> "send", sleep |-> 0]
  ELSE IF session # 0
  THEN [send |-> "error", info |-> FALSE, error |-> FALSE, dec |-> 1,
        failed_times |-> ft, again |-> FALSE,
        first |-> "send", sleep |-> 0]
  ELSE [send |-> "none", info |-> FALSE, error |-> ft > 0, dec |-> 0,
        failed_times |-> ft + 1, again |-> TRUE,
        first |-> "log", sleep |-> RetrySleep * (ft + 1)]

\* handle_result: what the actor does with the outcome of one driver call.
\* send: the response it delivers; info / error: the log entries; dec: what it
\* subtracts from the counter; again: its return value (TRUE = call once more);
\* first: which of moon_send and moon_log it calls first; sleep: the seconds
\* it sleeps before it returns
handle_result(ft, session, ok) ==
  IF ok
  THEN [send |-> "result", info |-> ft > 0, error |-> FALSE, dec |-> 1,
        failed_times |-> ft, again |-> FALSE,
        first |-> "send", sleep |-> 0]
  ELSE IF session # 0
  THEN [send |-> "error", info |-> FALSE, error |-> FALSE, dec |-> 1,
        failed_times |-> ft, again |-> FALSE,
        first |-> "send", sleep |-> 0]
  ELSE [send |-> "none", info |-> FALSE, error |-> ft > 0, dec |-> 0,
        failed_times |-> ft + 1, again |-> TRUE,
        first |-> "log", sleep |-> RetrySleep]

\* a second consumer: requests are taken while one is still being executed
LoopAtRecvPipelined(h) == Active(h)

\* the handler is one sequential task: it is back at rx.recv() only when the
\* inner `while handle_result(..) {}` of the previous request has ended
LoopAtRecv(h) == actor[h] = "Recv"

\* a handler that passes over a Close and goes on with the next request
RecvIgnoreClose(h) ==
  /\ LoopAtRecv(h)
  /\ queue[h] # << >>
  /\ budget.recv > 0
  /\ IF recv(queue[h]).op.kind = "Close"
     THEN /\ queue' = [queue EXCEPT ![h] = recv(queue[h]).rest]
          /\ UNCHANGED << actor, cur, started, budget >>
     ELSE /\ actor' = [actor EXCEPT ![h] = "Exec"]
          /\ queue' = [queue EXCEPT ![h] = recv(queue[h]).rest]
          /\ cur' = [cur EXCEPT ![h] = recv(queue[h]).op]
          /\ started' = [started EXCEPT ![h] = Append(@, recv(queue[h]).op.id)]
          /\ budget' = [budget EXCEPT !.recv = @ - 1]
  /\ failed_times' = [failed_times EXCEPT ![h] = 0]
  /\ UNCHANGED << ret, lib, registry, pending, nconn, hinfo, counter, db, mailbox, log,
                  pend, stage, nops, enq, attempts, done, sleeping >>

\* a handler that keeps one failure count for the whole connection instead of
\* one per dequeued request
RecvKeepCount(h) ==
  /\ LoopAtRecv(h)
  /\ queue[h] # << >>
  /\ budget.recv > 0
  /\ IF recv(queue[h]).op.kind = "Close"
     THEN /\ actor' = [actor EXCEPT ![h] = "Terminated"]
          /\ queue' = [queue EXCEPT ![h] = << >>]
          /\ UNCHANGED << cur, started, budget >>
     ELSE /\ actor' = [actor EXCEPT ![h] = "Exec"]
          /\ queue' = [queue EXCEPT ![h] = recv(queue[h]).rest]
          /\ cur' = [cur EXCEPT ![h] = recv(queue[h]).op]
          /\ started' = [started EXCEPT ![h] = Append(@, recv(queue[h]).op.id)]
          /\ budget' = [budget EXCEPT !.recv = @ - 1]
  /\ UNCHANGED << ret, lib, registry, pending, nconn, hinfo, counter, db, mailbox, log,
                  pend, stage, nops, enq, attempts, done, failed_times, sleeping >>

\* a handler that takes the next request only while no other connection's
\* handler is in the middle of one, as if all handlers ran on one task
RecvSerial(h) ==
  /\ LoopAtRecv(h)
  /\ \A g \in HandleIds \ {h} : actor[g] \notin {"Exec", "Sleep"}
  /\ queue[h] # << >>
  /\ budget.recv > 0
  /\ IF recv(queue[h]).op.kind = "Close"
     THEN /\ actor' = [actor EXCEPT ![h] = "Terminated"]
          /\ queue' = [queue EXCEPT ![h] = << >>]
          /\ UNCHANGED << cur, started, budget >>
     ELSE /\ actor' = [actor EXCEPT ![h] = "Exec"]
          /\ queue' = [queue EXCEPT ![h] = recv(queue[h]).rest]
          /\ cur' = [cur EXCEPT ![h] = recv(queue[h]).op]
          /\ started' = [started EXCEPT ![h] = Append(@, recv(queue[h]).op.id)]
          /\ budget' = [budget EXCEPT !.recv = @ - 1]
  /\ failed_times' = [failed_times EXCEPT ![h] = 0]
  /\ UNCHANGED << ret, lib, registry, pending, nconn, hinfo, counter, db, mailbox, log,
                  pend, stage, nops, enq, attempts, done, sleeping >>

\* `while let Some(op) = rx.recv().await`: take the next request; Close breaks
\* out of the loop, which drops the receiver and what is still buffered
Recv(h) ==
  /\ LoopAtRecv(h)
  /\ queue[h] # << >>
  /\ budget.recv > 0
  /\ IF recv(queue[h]).op.kind = "Close"
     THEN /\ actor' = [actor EXCEPT ![h] = "Terminated"]
          /\ queue' = [queue EXCEPT ![h] = << >>]
          /\ UNCHANGED << cur, started, budget >>
     ELSE /\ actor' = [actor EXCEPT ![h] = "Exec"]
          /\ queue' = [queue EXCEPT ![h] = recv(queue[h]).rest]
          /\ cur' = [cur EXCEPT ![h] = recv(queue[h]).op]
          /\ started' = [started EXCEPT ![h] = Append(@, recv(queue[h]).op.id)]
          /\ budget' = [budget EXCEPT !.recv = @ - 1]
  /\ failed_times' = [failed_times EXCEPT ![h] = 0]
  /\ UNCHANGED << ret, lib, registry, pending, nconn, hinfo, counter, db, mailbox, log,
                  pend, stage, nops, enq, attempts, done, sleeping >>

\* one turn of the inner `while handle_result(.., pool.xxx(op).await).await {}`.
\* A log entry records whether the response of this turn had already been
\* handed to moon_send when moon_log was called. waited: the seconds the
\* handler has slept since its previous driver call
Attempt(h, out, waited) ==
  LET op == cur[h]
      r == handle_result(failed_times[h], op.session, out.ok)
  IN
  /\ out.ok \/ op.session # 0 \/ failed_times[h] < budget.fail
  /\ db' = [db EXCEPT ![h] = @ \o out.applied]
  /\ attempts' = [attempts EXCEPT ![h] =
       Append(@, [id |-> op.id, qs |-> op.qs, ok |-> out.ok,
                   waited |-> waited])]
  /\ sleeping' = [sleeping EXCEPT ![h] = r.sleep]
  /\ mailbox' =
       IF r.send = "none" THEN mailbox
       ELSE [mailbox EXCEPT ![op.owner] =
              Append(@, [session |-> op.session,
                         kind |-> IF r.send = "error" THEN "Error"
                                  ELSE ResponseKind(op.kind),
                         id |-> op.id, h |-> h])]
  /\ log' = [log EXCEPT ![h] =
       @ \o (IF r.info
              THEN << [level |-> "INFO", id |-> op.id,
                       sent |-> r.send # "none" /\ r.first = "send"] >>
              ELSE << >>)
         \o (IF r.error
              THEN << [level |-> "ERROR", id |-> op.id,
                       sent |-> r.send # "none" /\ r.first = "send"] >>
              ELSE << >>)]
  /\ counter' = [counter EXCEPT ![h] = @ - r.dec]
  /\ failed_times' = [failed_times EXCEPT ![h] = r.failed_times]
  /\ actor' = [actor EXCEPT ![h] = IF r.again THEN "Sleep" ELSE "Recv"]
  /\ cur' = [cur EXCEPT ![h] = IF r.again THEN op ELSE NoOp]
  /\ done' = [done EXCEPT ![h] =
       IF r.again THEN @ ELSE Append(@, [id |-> op.id, ok |-> out.ok])]
  /\ UNCHANGED << ret, lib, registry, pending, nconn, hinfo, queue, pend, stage,
                  nops, budget, enq, started >>

\* a handler that makes a driver call after it has left its loop
ExecAfterBreak(h) ==
  /\ actor[h] \in {"Exec", "Terminated"}
  /\ \E out \in DriverOutcomes(hinfo[h].backend, cur[h]) : Attempt(h, out, 0)

\* the first driver call for the request just dequeued
Exec(h) ==
  /\ actor[h] = "Exec"
  /\ \E out \in DriverOutcomes(hinfo[h].backend, cur[h]) : Attempt(h, out, 0)

\* the sleep is over, all of it: the driver is called again for the same request
Retry(h) ==
  /\ actor[h] = "Sleep"
  /\ \E out \in DriverOutcomes(hinfo[h].backend, cur[h]) :
       Attempt(h, out, sleeping[h])

(* ------------------------------- Next --------------------------------- *)
AdminNext ==
  \/ \E n \in Names : connect(Admin, ConnectSession, n)
  \/ \E in \in PushInputs : push_transaction_query(Admin, in)
  \/ \E h \in HandleIds, s \in Sessions : transaction(Admin, h, s)
  \/ \E h \in HandleIds : close(Admin, h)

ClientNext ==
  \E h \in HandleIds, s \in Sessions, in \in QueryInputs,
     kind \in {"Query", "Execute"} : query(Client, h, s, in, kind)

CallerNext == \E o \in Owners : fetch_add(o)

ConnectNext ==
  \/ \E c \in pending : ConnectOk(c)
  \/ \E c \in pending : ConnectNotify(c)
  \/ \E c \in pending : ConnectErr(c)

ActorNext ==
  \/ \E h \in HandleIds : Recv(h)
  \/ \E h \in HandleIds : Exec(h)
  \/ \E h \in HandleIds : Retry(h)

Next == AdminNext \/ ClientNext \/ CallerNext \/ ConnectNext \/ ActorNext

Spec == Init /\ [][Next]_vars

SpecLive == InitLive /\ [][Next]_vars

SpecRetry == InitRetry /\ [][Next]_vars

SpecTwin == InitTwin /\ [][Next]_vars

SpecStaged == InitStaged /\ [][Next]_vars

(* ------------------------------- decode ------------------------------- *)
(* ------------------------ two connections ----------------------------- *)
\* the state after connect(.., "a") and connect(.., "b") have succeeded:
\* handle 1 is registered under "a", handle 2 under "b", each with its actor
InitPair ==
  /\ InitCommon
  /\ lib \in Backends
  /\ registry = [n \in Names |-> IF n = "a" THEN 1 ELSE 2]
  /\ nconn = 2
  /\ hinfo = [h \in HandleIds |->
       CASE h = 1 -> [backend |-> lib, name |-> "a"]
         [] h = 2 -> [backend |-> lib, name |-> "b"]
         [] OTHER -> NoHandle]
  /\ queue = [h \in HandleIds |-> << >>]
  /\ counter = [h \in HandleIds |-> 0]
  /\ actor = [h \in HandleIds |-> IF h \in {1, 2} THEN "Recv" ELSE "None"]
  /\ mailbox = [o \in Owners |->
       IF o = Admin
       THEN << [session |-> ConnectSession, kind |-> "Connect", id |-> 0, h |-> 1],
               [session |-> ConnectSession, kind |-> "Connect", id |-> 0, h |-> 2] >>
       ELSE << >>]
  /\ ret = NoRet
  /\ nops = 0
  /\ enq = [h \in HandleIds |-> << >>]
  /\ budget = [calls |-> IndepCalls, recv |-> IndepCalls, fail |-> IndepFail]

\* the query the Client service submits in SpecIndep
IndepInput == [sql |-> "s2", args |-> << LuaInt7 >>]

IndepNext ==
  \/ \E h \in HandleIds, s \in Sessions, kind \in {"Query", "Execute"} :
       query(Client, h, s, IndepInput, kind)
  \/ \E o \in Owners : fetch_add(o)
  \/ \E h \in HandleIds : Recv(h)
  \/ \E h \in HandleIds : Exec(h)
  \/ \E h \in HandleIds : Retry(h)

\* the handler task of connection "b" is scheduled, its driver calls return
\* and its sleeps end; nothing is assumed of the handler of "a", whose driver
\* call or sleep may never end
SpecIndep ==
  /\ InitPair
  /\ [][IndepNext]_vars
  /\ WF_vars(Recv(2)) /\ WF_vars(Exec(2)) /\ WF_vars(Retry(2))

(* -------------------------------- stats ------------------------------- *)
\* the state after connect(.., "a") has succeeded and k queries, the first of
\* them unattended, were submitted and none dequeued: one query, or a full
\* queue
InitBlocked ==
  \E k \in {1, Capacity} :
    InitWith(BlockedCalls, BlockedRecv, BlockedFail, TRUE, k)

BlockedNext ==
  \/ \E h \in HandleIds, s \in Sessions : query(Client, h, s, IndepInput, "Query")
  \/ \E h \in HandleIds : close(Admin, h)
  \/ \E o \in Owners : fetch_add(o)
  \/ \E h \in HandleIds : Recv(h)
  \/ \E h \in HandleIds : Exec(h)
  \/ \E h \in HandleIds : Retry(h)

\* the handler task is scheduled, every driver call returns and every sleep
\* ends
SpecBlocked ==
  /\ InitBlocked
  /\ [][BlockedNext]_vars
  /\ \A h \in HandleIds :
       WF_vars(Recv(h)) /\ WF_vars(Exec(h)) /\ WF_vars(Retry(h))

\* the state after connect(.., "a") has succeeded, k queries were submitted and
\* none dequeued (none, or as many as the queue holds), and the Admin service
\* has pushed the statement s3 to its staging object
InitDiscard ==
  /\ \E k \in {0, Capacity} :
       /\ queue = [h \in HandleIds |-> IF h = 1 THEN Prefill(k) ELSE << >>]
       /\ enq = queue
       /\ counter = [h \in HandleIds |-> IF h = 1 THEN k ELSE 0]
       /\ nops = k
  /\ stage = [o \in Owners |->
       IF o = Admin THEN << [sql |-> "s3", binds |-> BuildParams(<< >>).binds] >>
       ELSE << >>]
  /\ pending = {}
  /\ cur = [h \in HandleIds |-> NoOp]
  /\ failed_times = [h \in HandleIds |-> 0]
  /\ db = [h \in HandleIds |-> << >>]
  /\ log = [h \in HandleIds |-> << >>]
  /\ pend = [o \in Owners |-> Idle]
  /\ started = [h \in HandleIds |-> << >>]
  /\ attempts = [h \in HandleIds |-> << >>]
  /\ done = [h \in HandleIds |-> << >>]
  /\ sleeping = [h \in HandleIds |-> 0]
  /\ lib \in Backends
  /\ registry = [n \in Names |-> IF n = "a" THEN 1 ELSE 0]
  /\ nconn = 1
  /\ hinfo = [h \in HandleIds |->
       IF h = 1 THEN [backend |-> lib, name |-> "a"] ELSE NoHandle]
  /\ actor = [h \in HandleIds |-> IF h = 1 THEN "Recv" ELSE "None"]
  /\ mailbox = [o \in Owners |->
       IF o = Admin
       THEN << [session |-> ConnectSession, kind |-> "Connect", id |-> 0, h |-> 1] >>
       ELSE << >>]
  /\ ret = NoRet
  /\ budget = [calls |-> DiscardCalls, recv |-> DiscardRecv, fail |-> DiscardFail]

DiscardNext ==
  \/ \E h \in HandleIds, s \in Sessions : transaction(Admin, h, s)
  \/ \E in \in PushInputs : push_transaction_query(Admin, in)
  \/ \E h \in HandleIds : close(Admin, h)
  \/ \E o \in Owners : fetch_add(o)
  \/ \E h \in HandleIds : Recv(h)
  \/ \E h \in HandleIds : Exec(h)
  \/ \E h \in HandleIds : Retry(h)

SpecDiscard == InitDiscard /\ [][DiscardNext]_vars

\* a stats that keeps reporting the counter of the first connection made
\* under a name
stats_first(o) ==
  /\ pend[o] = Idle
  /\ ret' = [kind |-> "STATS", message |-> "",
             value |-> [ n \in { m \in Names : registry[m] # 0 } |->
               counter[CHOOSE h \in HandleIds :
                         /\ Created(h) /\ hinfo[h].name = n
                         /\ \A g \in HandleIds :
                              (Created(g) /\ hinfo[g].name = n) => h <= g] ]]
  /\ UNCHANGED << lib, registry, pending, nconn, hinfo, queue, counter, actor, cur,
                  failed_times, db, mailbox, log, pend, stage, nops, budget, enq,
                  started, attempts, done, sleeping >>

\* stats: a table with, for every entry of the registry, its key and the
\* counter of its value, loaded when the entry is visited
stats(o) ==
  /\ pend[o] = Idle
  /\ ret' = [kind |-> "STATS", message |-> "",
             value |-> [ n \in { m \in Names : registry[m] # 0 } |->
                           counter[registry[n]] ]]
  /\ UNCHANGED << lib, registry, pending, nconn, hinfo, queue, counter, actor, cur,
                  failed_times, db, mailbox, log, pend, stage, nops, budget, enq,
                  started, attempts, done, sleeping >>

StatsNext == \E o \in Owners : stats(o)

\* the runs from InitTwin of callers that connect, submit queries and ask for
\* the stats
StatsRunNext ==
  \/ \E n \in Names : connect(Admin, ConnectSession, n)
  \/ \E h \in HandleIds, s \in Sessions, kind \in {"Query", "Execute"} :
       query(Client, h, s, IndepInput, kind)
  \/ CallerNext \/ ConnectNext \/ ActorNext \/ StatsNext

SpecStats == InitTwin /\ [][StatsRunNext]_vars

\* the state after connect(.., "a") has succeeded, for runs that bind values
\* of every Lua type
InitBind == InitWith(BindCalls, 0, 0, TRUE, 0)

BindNext ==
  \/ \E h \in HandleIds, s \in Sessions, in \in BindInputs,
        kind \in {"Query", "Execute"} : query(Client, h, s, in, kind)
  \/ \E in \in BindInputs : push_transaction_query(Admin, in)
  \/ \E o \in Owners : fetch_add(o)

SpecBind == InitBind /\ [][BindNext]_vars

(* ---------------------------- process_rows ---------------------------- *)
\* DbType::from_name: DB_TYPE_MAP looked up by exact name, Unknown otherwise
from_name(name) ==
  CASE name \in {"INT4", "INT", "INTEGER", "MEDIUMINT"} -> "Int32"
    [] name \in {"INT8", "BIGINT"} -> "Int64"
    [] name \in {"INT2", "SMALLINT"} -> "Int16"
    [] name = "TINYINT" -> "Int8"
    [] name \in {"FLOAT8", "DOUBLE"} -> "Float64"
    [] name \in {"FLOAT4", "FLOAT", "REAL"} -> "Float32"
    [] name \in {"TEXT", "VARCHAR", "CHAR", "BPCHAR", "NAME", "TINYTEXT",
                 "MEDIUMTEXT", "LONGTEXT", "NVARCHAR", "NCHAR"} -> "Text"
    [] name \in {"BOOL", "BOOLEAN"} -> "Bool"
    [] name \in {"TIMESTAMP", "TIMESTAMPTZ", "DATETIME"} -> "Timestamp"
    [] name = "DATE" -> "Date"
    [] name = "TIME" -> "Time"
    [] name = "UUID" -> "Uuid"
    [] name \in {"BYTEA", "BLOB", "VARBINARY", "BINARY", "TINYBLOB",
                 "MEDIUMBLOB", "LONGBLOB"} -> "Bytes"
    [] name \in {"JSON", "JSONB"} -> "Json"
    [] name = "NULL" -> "Null"
    [] name \in {"DECIMAL", "NUMERIC", "MONEY"} -> "UnsupportedDecimal"
    [] name = "TIMETZ" -> "UnsupportedTimeWithTz"
    [] name = "TINYINT UNSIGNED" -> "UInt8"
    [] name = "SMALLINT UNSIGNED" -> "UInt16"
    [] name \in {"INT UNSIGNED", "MEDIUMINT UNSIGNED"} -> "UInt32"
    [] name = "BIGINT UNSIGNED" -> "UInt64"
    [] OTHER -> "Unknown"

\* the values a Lua row table holds: the Lua type and, symbolically, whether
\* the content is the stored one ("wire") or a substituted one
LuaNil == [tag |-> "Null", v |-> ""]
LuaVal(tag, v) == [tag |-> tag, v |-> v]

\* what one cell does to the batch: a value stored under the column's name,
\* return Err(message), or the push of false and a message with return Ok(2)
Put(val) == [k |-> "Put", val |-> val, message |-> << >>]
AbortErr(msg) == [k |-> "Err", val |-> LuaNil, message |-> msg]
AbortOk2(msg) == [k |-> "Ok2", val |-> LuaNil, message |-> msg]

\* a process_rows in which a failed decode of a stored value fails the batch
decode_typed_strict(col, cell) ==
  IF cell.kind = "Bad"
  THEN AbortErr(<< col.name, "decode error" >>)
  ELSE Put(IF from_name(col.type) \in {"Timestamp", "Date", "Time", "Uuid"}
           THEN LuaVal("Text", "formatted")
           ELSE LuaVal("Int", "wire"))

\* A cell of a result set, as the driver hands it over. type is the declared
\* type of the cell's column in its own row; kind is
\*   Value    stored value that decodes as the column's type
\*   Null     storage-level NULL
\*   Bad      stored non-NULL value whose decode fails
\*   Missing  try_get_raw fails (the row has no column at that index)
\* one arm of the match on db_type in the sqlx process_rows, for a cell that
\* try_get_raw returned and that is not NULL
decode_typed(col, cell) ==
  LET t == from_name(col.type)
      good == cell.kind = "Value"
  IN CASE t \in {"Int8", "UInt8", "Int16", "UInt16", "Int32", "UInt32",
                 "Int64", "UInt64"} ->
            Put(LuaVal("Int", IF good THEN "wire" ELSE "0"))
       [] t \in {"Float32", "Float64"} ->
            Put(LuaVal("Float", IF good THEN "wire" ELSE "0"))
       [] t = "Text" -> Put(LuaVal("Text", IF good THEN "wire" ELSE ""))
       [] t = "Bool" -> Put(LuaVal("Bool", IF good THEN "wire" ELSE "false"))
       [] t \in {"Timestamp", "Date", "Time", "Uuid"} ->
            Put(IF good THEN LuaVal("Text", "formatted") ELSE LuaNil)
       [] t = "Bytes" -> Put(LuaVal("Bytes", IF good THEN "wire" ELSE ""))
       [] t = "Json" -> Put(LuaVal("Text", IF good THEN "wire" ELSE "{}"))
       [] t = "Null" -> Put(LuaNil)
       [] t = "UnsupportedDecimal" ->
            AbortErr(<< "Unsupported decimal type for column", col.name >>)
       [] t = "UnsupportedTimeWithTz" ->
            AbortErr(<< "Unsupported time with time zone type for column",
                        col.name >>)
       [] t = "Unknown" -> Put(IF good THEN LuaVal("Bytes", "wire") ELSE LuaNil)

\* the body of the column loop of the sqlx process_rows for one cell
sqlx_cell(col, cell) ==
  IF cell.kind = "Missing"
  THEN AbortOk2(<< col.name, "decode error" >>)
  ELSE IF cell.kind = "Null" THEN Put(LuaNil)
  ELSE decode_typed(col, cell)

\* the ColumnData variant the tiberius driver holds for a cell of a column of
\* the declared type: the variants process_rows asks for, and Other for the
\* rest (Numeric, DateTime, Guid, U8, I16 ...)
ColumnData(type) ==
  CASE type \in {"NVARCHAR", "VARCHAR"} -> "String"
    [] type = "BIT" -> "Bit"
    [] type = "INT" -> "I32"
    [] type = "BIGINT" -> "I64"
    [] type = "REAL" -> "F32"
    [] type = "FLOAT" -> "F64"
    [] type = "VARBINARY" -> "Binary"
    [] OTHER -> "Other"

\* row.try_get::<T, _>(index): Err when the cell the row holds at the index
\* is not of variant T, else Ok(None) for NULL and Ok(Some(value)) otherwise
try_get(variant, col, cell) ==
  IF ColumnData(cell.type) # variant THEN "Err"
  ELSE IF cell.kind = "Null" THEN "None" ELSE "Some"

\* the chain of try_get calls of the tiberius process_rows, in its order, and
\* the Lua type and the Default::default() of each
TryOrder == << "String", "Bit", "I32", "I64", "F32", "F64", "Binary" >>
TryTag(variant) ==
  CASE variant = "String" -> "Text"
    [] variant = "Bit" -> "Bool"
    [] variant \in {"I32", "I64"} -> "Int"
    [] variant \in {"F32", "F64"} -> "Float"
    [] variant = "Binary" -> "Bytes"
unwrap_or_default(variant, got) ==
  IF got = "Some" THEN "wire"
  ELSE (CASE variant \in {"String", "Binary"} -> ""
          [] variant = "Bit" -> "false"
          [] OTHER -> "0")

RECURSIVE tiberius_chain(_, _, _)
tiberius_chain(k, col, cell) ==
  IF k > Len(TryOrder) THEN Put(LuaNil)
  ELSE LET got == try_get(TryOrder[k], col, cell)
       IN IF got # "Err"
          THEN Put(LuaVal(TryTag(TryOrder[k]),
                          unwrap_or_default(TryOrder[k], got)))
          ELSE tiberius_chain(k + 1, col, cell)

tiberius_cell(col, cell) == tiberius_chain(1, col, cell)

decode_cell(b, col, cell) ==
  IF b = "sqlx" THEN sqlx_cell(col, cell) ELSE tiberius_cell(col, cell)

\* the outcome of process_rows
RowsOk(rows) == [status |-> "Ok1", rows |-> rows, message |-> << >>]
RowsErr(msg) == [status |-> "Err", rows |-> << >>, message |-> msg]
RowsOk2(msg) == [status |-> "Ok2", rows |-> << >>, message |-> msg]

\* the two nested loops of process_rows from row i, column j on; done are the
\* row tables already stored, row is the one being filled
RECURSIVE rows_loop(_, _, _, _, _, _)
rows_loop(b, rs, i, j, done_rows, row) ==
  IF i > Len(rs.rows) THEN RowsOk(done_rows)
  ELSE IF j > Len(rs.columns)
  THEN rows_loop(b, rs, i + 1, 1, Append(done_rows, row), << >>)
  ELSE LET c == decode_cell(b, rs.columns[j], rs.rows[i][j])
       IN (CASE c.k = "Put" ->
                  rows_loop(b, rs, i, j + 1, done_rows, Append(row, c.val))
             [] c.k = "Err" -> RowsErr(c.message)
             [] c.k = "Ok2" -> RowsOk2(c.message))

\* process_rows: an empty list of rows gives an empty table; the column
\* schema is the one of the first row
process_rows(b, rs) ==
  IF rs.rows = << >> THEN RowsOk(<< >>)
  ELSE rows_loop(b, rs, 1, 1, << >>, << >>)

\* the inputs of process_rows: result sets of two columns c1, c2 and up to
\* MaxRows rows
TypeNames(b) ==
  IF b = "sqlx"
  THEN {"INT", "DOUBLE", "TEXT", "BOOL", "TIMESTAMP", "DATE", "TIME", "UUID",
        "DECIMAL", "NUMERIC", "MONEY", "TIMETZ", "GEOMETRY"}
  ELSE {"INT", "NVARCHAR", "BIT", "DATETIME", "DECIMAL", "NUMERIC"}
SecondTypes(b) ==
  IF b = "sqlx" THEN {"INT", "TIMESTAMP", "DECIMAL"} ELSE {"INT", "NVARCHAR", "DECIMAL"}
CellKinds(b) ==
  IF b = "sqlx" THEN {"Value", "Null", "Bad", "Missing"} ELSE {"Value", "Null"}
Cells(b) == { [kind |-> k] : k \in CellKinds(b) }
Schemas(b) ==
  { << [name |-> "c1", type |-> t1], [name |-> "c2", type |-> t2] >> :
      t1 \in TypeNames(b), t2 \in SecondTypes(b) }
RowLists(b) ==
  UNION { [1 .. n -> [1 .. 2 -> Cells(b)]] : n \in 0 .. MaxRows }
\* a row of the columns cs: every cell is of the declared type of its column
OwnRow(cs, row) ==
  [j \in DOMAIN row |-> [kind |-> row[j].kind, type |-> cs[j].type]]
ResultSets(b) ==
  { [columns |-> cs, rows |-> [i \in DOMAIN rws |-> OwnRow(cs, rws[i])]] :
      cs \in Schemas(b), rws \in RowLists(b) }
NoRows == [columns |-> << >>, rows |-> << >>]
\* the result sets among the mixed responses of InitDecode: one that converts
\* and one that does not
SampleSets(b) ==
  { [columns |-> << [name |-> "c1", type |-> "INT"], [name |-> "c2", type |-> t] >>,
     rows |-> << << [kind |-> "Value", type |-> "INT"],
                    [kind |-> "Value", type |-> t] >> >>] : t \in {"INT", "DECIMAL"} }
\* the rows a statement of two SELECTs hands to process_rows: the row of the
\* first result and, appended to it, the row of the second, each of the
\* columns of its own result
MixedTypes(b) ==
  IF b = "sqlx" THEN {"INT", "int", "TEXT", "DECIMAL"}
  ELSE {"INT", "NVARCHAR", "BIT", "DECIMAL"}
MixedSchemas(b) ==
  { << [name |-> "c1", type |-> t], [name |-> "c2", type |-> "INT"] >> :
      t \in MixedTypes(b) }
MixedSets(b) ==
  { [columns |-> cs1,
     rows |-> << OwnRow(cs1, r1), OwnRow(cs2, r2) >>] :
      cs1 \in MixedSchemas(b),
      cs2 \in MixedSchemas(b),
      r1 \in [1 .. 2 -> Cells(b)], r2 \in [1 .. 2 -> Cells(b)] }
  \cup { [columns |-> cs, rows |-> << >>] : cs \in MixedSchemas(b) }

(* ------------------------------- decode ------------------------------- *)
\* the DatabaseResponse values moon_send can deliver in library b. detail is
\* what the decoder looks at for an Error, whether as_database_error() is
\* Some; rows is the result set of a Rows response
Responses(b) ==
  { [session |-> 1, kind |-> k, id |-> 0, h |-> 1, detail |-> "", rows |-> NoRows] :
      k \in {"Connect", "Transaction", "Timeout"}
             \cup (IF b = "tiberius" THEN {"Execute"} ELSE {}) }
  \cup { [session |-> 1, kind |-> "Error", id |-> 0, h |-> 1, detail |-> d,
          rows |-> NoRows] : d \in {"Database", "Other"} }
  \cup { [session |-> 1, kind |-> "Rows", id |-> 0, h |-> 1, detail |-> "",
          rows |-> rs] : rs \in SampleSets(b) }

\* the match of decode on the response: the Lua values it returns. A table is
\* a record of the fields it sets; the pair false, message that process_rows
\* leaves on the stack with Ok(2) is the record of first and second
DecodeResponse(b, m) ==
  CASE m.kind = "Rows" ->
         LET r == process_rows(b, m.rows)
         IN (CASE r.status = "Ok1" -> [rows |-> r.rows]
               [] r.status = "Err" -> [kind |-> "ERROR", message |-> r.message]
               [] r.status = "Ok2" -> [first |-> "false", second |-> r.message])
    [] m.kind = "Execute" -> [affected_rows |-> "count"]
    [] m.kind = "Transaction" -> [message |-> "ok"]
    [] m.kind = "Connect" -> [message |-> "success"]
    [] m.kind = "Error" ->
         IF b = "sqlx" /\ m.detail = "Database"
         THEN [kind |-> "DB", message |-> "db_err.message()"]
         ELSE [kind |-> "ERROR", message |-> "err.to_string()"]
    [] m.kind = "Timeout" -> [kind |-> "TIMEOUT", message |-> "err.to_string()"]

\* decode: the caller hands over the oldest result it has received and gets
\* the Lua table for it
decode(o) ==
  /\ mailbox[o] # << >>
  /\ ret' = DecodeResponse(lib, Head(mailbox[o]))
  /\ mailbox' = [mailbox EXCEPT ![o] = Tail(@)]
  /\ UNCHANGED << lib, registry, pending, nconn, hinfo, queue, counter, actor, cur,
                  failed_times, db, log, pend, stage, nops, budget, enq,
                  started, attempts, done, sleeping >>

\* the Client service has received MaxDecode results and decodes them
InitDecode ==
  /\ InitCommon
  /\ lib \in Backends
  /\ registry = [n \in Names |-> IF n = "a" THEN 1 ELSE 0]
  /\ nconn = 1
  /\ hinfo = [h \in HandleIds |->
       IF h = 1 THEN [backend |-> lib, name |-> "a"] ELSE NoHandle]
  /\ queue = [h \in HandleIds |-> << >>]
  /\ counter = [h \in HandleIds |-> 0]
  /\ actor = [h \in HandleIds |-> IF h = 1 THEN "Recv" ELSE "None"]
  /\ \E ms \in [1 .. MaxDecode -> Responses(lib)] :
       mailbox = [o \in Owners |-> IF o = Client THEN ms ELSE << >>]
  /\ ret = NoRet
  /\ nops = 0
  /\ enq = [h \in HandleIds |-> << >>]
  /\ budget = [calls |-> 0, recv |-> 0, fail |-> 0]

DecodeNext == \E o \in Owners : decode(o)

SpecDecode == InitDecode /\ [][DecodeNext]_vars

\* the Client service has received one Rows response and decodes it
InitRows ==
  /\ InitCommon
  /\ lib \in Backends
  /\ registry = [n \in Names |-> IF n = "a" THEN 1 ELSE 0]
  /\ nconn = 1
  /\ hinfo = [h \in HandleIds |->
       IF h = 1 THEN [backend |-> lib, name |-> "a"] ELSE NoHandle]
  /\ queue = [h \in HandleIds |-> << >>]
  /\ counter = [h \in HandleIds |-> 0]
  /\ actor = [h \in HandleIds |-> IF h = 1 THEN "Recv" ELSE "None"]
  /\ \E rs \in ResultSets(lib) :
       mailbox = [o \in Owners |->
         IF o = Client
         THEN << [session |-> 1, kind |-> "Rows", id |-> 0, h |-> 1,
                  detail |-> "", rows |-> rs] >>
         ELSE << >>]
  /\ ret = NoRet
  /\ nops = 0
  /\ enq = [h \in HandleIds |-> << >>]
  /\ budget = [calls |-> 0, recv |-> 0, fail |-> 0]

SpecRows == InitRows /\ [][DecodeNext]_vars

\* the Client service has received the rows of a statement of two SELECTs,
\* or of one that returned no row, and decodes them
InitMixed ==
  /\ InitCommon
  /\ lib \in Backends
  /\ registry = [n \in Names |-> IF n = "a" THEN 1 ELSE 0]
  /\ nconn = 1
  /\ hinfo = [h \in HandleIds |->
       IF h = 1 THEN [backend |-> lib, name |-> "a"] ELSE NoHandle]
  /\ queue = [h \in HandleIds |-> << >>]
  /\ counter = [h \in HandleIds |-> 0]
  /\ actor = [h \in HandleIds |-> IF h = 1 THEN "Recv" ELSE "None"]
  /\ \E rs \in MixedSets(lib) :
       mailbox = [o \in Owners |->
         IF o = Client
         THEN << [session |-> 1, kind |-> "Rows", id |-> 0, h |-> 1,
                  detail |-> "", rows |-> rs] >>
         ELSE << >>]
  /\ ret = NoRet
  /\ nops = 0
  /\ enq = [h \in HandleIds |-> << >>]
  /\ budget = [calls |-> 0, recv |-> 0, fail |-> 0]

SpecMixed == InitMixed /\ [][DecodeNext]_vars

SpecFull == InitFull /\ [][Next]_vars

\* the actor task is scheduled, every driver call returns and every sleep ends
SpecFair ==
  /\ InitRetry
  /\ [][Next]_vars
  /\ \A h \in HandleIds :
       WF_vars(Recv(h)) /\ WF_vars(Exec(h)) /\ WF_vars(Retry(h))
  /\ WF_vars(\E c \in pending : ConnectNotify(c))

(* ====================================================================== *)
(* Properties                                                             *)
(* ====================================================================== *)
IsClose(op) == op.kind = "Close"

\* the operations (not Close) successfully enqueued on handle h
Operations(h) == { op \in Range(enq[h]) : ~ IsClose(op) }

OpIds(h) == { op.id : op \in Operations(h) }

OpOf(h, id) == CHOOSE op \in Range(enq[h]) : op.id = id

DoneIds(h) == { e.id : e \in Range(done[h]) }

\* results delivered for request id
Delivered(id) ==
  UNION { { << o, i >> : i \in { j \in 1 .. Len(mailbox[o]) : mailbox[o][j].id = id } } :
          o \in Owners }

NoCallInProgress == \A o \in Owners : pend[o] = Idle

\* the requests of h that the actor has dequeued and not yet brought to a
\* terminal outcome
Executing(h) == Range(started[h]) \ DoneIds(h)

(* C1: on every handle the in-flight counter is never negative, and equals   *)
(* the number of operations successfully enqueued minus the number that      *)
(* reached a terminal outcome (read whenever no submission call is half-way  *)
(* through, so that "enqueued" means a call that returned).                  *)
C1_InFlightAccounting ==
  \A h \in HandleIds :
    Created(h) =>
      /\ counter[h] >= 0
      /\ NoCallInProgress =>
           counter[h] = Cardinality(Operations(h)) - Len(done[h])

(* C2 as stated: at most one operation per connection name is being          *)
(* executed or retried at any time, also after the name was re-connected.    *)
C2_OneExecutingPerName ==
  \A n \in Names :
    Cardinality(UNION { Executing(h) :
       h \in { g \in HandleIds : Created(g) /\ hinfo[g].name = n } }) <= 1

(* C2 amended: at most one operation per connection handle (one actor, one   *)
(* physical connection) is being executed or retried at any time; a name     *)
(* that was re-connected has two actors, which run independently.            *)
C2_OneExecutingPerHandle ==
  \A h \in HandleIds :
    /\ Cardinality(Executing(h)) <= 1
    /\ Executing(h) = IF actor[h] \in {"Exec", "Sleep"} THEN {cur[h].id} ELSE {}

C2_Witness ==
  \E g, h \in HandleIds :
    /\ g # h /\ Created(g) /\ Created(h) /\ hinfo[g].name = hinfo[h].name
    /\ actor[g] = "Exec" /\ actor[h] = "Exec"

(* C3: an actor starts the operations of its queue in the order in which     *)
(* they were enqueued: the requests it has dequeued for execution are, in    *)
(* order, the first operations enqueued on the handle.                       *)
C3_FifoStart ==
  \A h \in HandleIds :
    /\ \A i, j \in 1 .. Len(started[h]) :
         i < j => started[h][i] < started[h][j]
    /\ \A i \in 1 .. Len(started[h]) :
         /\ started[h][i] \in OpIds(h)
         /\ \A op \in Operations(h) :
              op.id < started[h][i] => op.id \in Range(started[h])

C3_Witness ==
  \E h \in HandleIds :
    /\ Len(started[h]) >= 2
    /\ actor[h] = "Exec"
    /\ cur[h].id = Last(started[h])

(* C4: when an attended operation O2 begins its first execution attempt,     *)
(* the result of every attended operation O1 enqueued before it on the same  *)
(* handle has already been delivered to O1's requester.                      *)
C4_ResultBeforeNextStart ==
  \A h \in HandleIds :
    \A o1, o2 \in Operations(h) :
      ( /\ o1.session # 0 /\ o2.session # 0
        /\ o1.id < o2.id
        /\ o2.id \in Range(started[h]) )
      => \E d \in Delivered(o1.id) :
           /\ d[1] = o1.owner
           /\ mailbox[d[1]][d[2]].session = o1.session

C4_Witness ==
  \E h \in HandleIds :
    \E o1, o2 \in Operations(h) :
      /\ o1.session # 0 /\ o2.session # 0 /\ o1.id < o2.id
      /\ actor[h] = "Exec" /\ cur[h] = o2 /\ attempts[h] # << >>
      /\ Last(attempts[h]).id = o1.id /\ ~ Last(attempts[h]).ok

\* positions in attempts[h] of the driver calls made for request id
AttemptsOf(h, id) == { i \in 1 .. Len(attempts[h]) : attempts[h][i].id = id }

\* the step is a driver call on h for an attended (att) or unattended request
\* that ended ok or not
AttemptStep(h, att, ok) ==
  /\ Len(attempts'[h]) = Len(attempts[h]) + 1
  /\ Last(attempts'[h]).ok = ok
  /\ (OpOf(h, Last(attempts'[h]).id).session # 0) = att

\* the only result delivered for request id is message m, in its owner's mailbox
OnlyResult(h, id, kind) ==
  /\ Cardinality(Delivered(id)) = 1
  /\ \A d \in Delivered(id) :
       /\ d[1] = OpOf(h, id).owner
       /\ mailbox[d[1]][d[2]] =
            [session |-> OpOf(h, id).session, kind |-> kind, id |-> id, h |-> h]

(* C5: an attended operation whose execution fails is executed exactly once: *)
(* one Error result goes to (owner, session), the counter is decremented     *)
(* once, and the operation is never retried.                                 *)
C5_AttendedFailureState ==
  \A h \in HandleIds :
    \A i \in 1 .. Len(attempts[h]) :
      ( ~ attempts[h][i].ok /\ OpOf(h, attempts[h][i].id).session # 0 )
      => /\ AttemptsOf(h, attempts[h][i].id) = {i}
         /\ OnlyResult(h, attempts[h][i].id, "Error")
         /\ attempts[h][i].id \in DoneIds(h)
         /\ cur[h].id # attempts[h][i].id

C5_AttendedFailureStep ==
  \A h \in HandleIds :
    AttemptStep(h, TRUE, FALSE)
    => /\ counter'[h] = counter[h] - 1
       /\ actor'[h] = "Recv"
       /\ Len(done'[h]) = Len(done[h]) + 1

C5_AttendedFailureOnce ==
  [] C5_AttendedFailureState /\ [][C5_AttendedFailureStep]_vars

C5_Witness ==
  \E h \in HandleIds :
    /\ Len(attempts[h]) >= 2
    /\ ~ attempts[h][1].ok
    /\ OpOf(h, attempts[h][1].id).session # 0

(* C6: an unattended operation whose execution fails is executed again with  *)
(* the same sql and binds until an attempt succeeds; while it fails nothing  *)
(* is delivered and the counter is not decremented; the counter is           *)
(* decremented once, at the successful attempt.                              *)
C6_UnattendedRetryState ==
  \A h \in HandleIds :
    \A i \in 1 .. Len(attempts[h]) :
      LET a == attempts[h][i]
          op == OpOf(h, a.id)
      IN op.session = 0 =>
           /\ a.qs = op.qs
           /\ ~ a.ok =>
                IF i < Len(attempts[h])
                THEN attempts[h][i + 1].id = a.id
                ELSE /\ actor[h] = "Sleep"
                     /\ cur[h] = op
                     /\ failed_times[h] = Cardinality(AttemptsOf(h, a.id))
           /\ (\A j \in AttemptsOf(h, a.id) : ~ attempts[h][j].ok) =>
                /\ Delivered(a.id) = {}
                /\ a.id \notin DoneIds(h)

C6_UnattendedRetryStep ==
  \A h \in HandleIds :
    /\ AttemptStep(h, FALSE, FALSE) =>
         /\ counter'[h] = counter[h]
         /\ mailbox' = mailbox
         /\ done' = done
    /\ AttemptStep(h, FALSE, TRUE) =>
         /\ counter'[h] = counter[h] - 1
         /\ Len(done'[h]) = Len(done[h]) + 1
         /\ actor'[h] = "Recv"

C6_UnattendedRetry ==
  [] C6_UnattendedRetryState /\ [][C6_UnattendedRetryStep]_vars

C6_Witness ==
  \E h \in HandleIds :
    /\ Len(attempts[h]) >= 3
    /\ attempts[h][1].id = attempts[h][3].id
    /\ ~ attempts[h][1].ok /\ ~ attempts[h][2].ok /\ attempts[h][3].ok
    /\ OpOf(h, attempts[h][1].id).session = 0
    /\ \E k \in 1 .. Len(attempts[h][3].qs) : attempts[h][3].qs[k].binds # << >>

(* C7: when an execution attempt of an operation succeeds, exactly one       *)
(* result is delivered for it, the counter is decremented once, and the      *)
(* operation is not executed again.                                          *)
C7_SuccessState ==
  \A h \in HandleIds :
    \A i \in 1 .. Len(attempts[h]) :
      attempts[h][i].ok
      => /\ \A j \in AttemptsOf(h, attempts[h][i].id) : j <= i
         /\ OnlyResult(h, attempts[h][i].id,
                       ResponseKind(OpOf(h, attempts[h][i].id).kind))
         /\ attempts[h][i].id \in DoneIds(h)
         /\ cur[h].id # attempts[h][i].id

C7_SuccessStep ==
  \A h \in HandleIds :
    (AttemptStep(h, TRUE, TRUE) \/ AttemptStep(h, FALSE, TRUE))
    => /\ counter'[h] = counter[h] - 1
       /\ actor'[h] = "Recv"
       /\ Len(done'[h]) = Len(done[h]) + 1

C7_SuccessOnce ==
  [] C7_SuccessState /\ [][C7_SuccessStep]_vars

C7_Witness ==
  \E h \in HandleIds :
    /\ Len(attempts[h]) >= 2
    /\ attempts[h][1].ok
    /\ actor[h] = "Recv"

(* C8: submission never blocks and the queue never holds more than 100       *)
(* operations: a query / execute / transaction submitted while the handle's  *)
(* queue holds 100 operations returns a synchronous error, enqueues nothing  *)
(* (so the operation is never executed) and adds nothing to the counter.     *)
SubmitOn(h) ==
  \/ \E o \in Owners, s \in Sessions, in \in QueryInputs,
        kind \in {"Query", "Execute"} : query(o, h, s, in, kind)
  \/ \E o \in Owners, s \in Sessions : transaction(o, h, s)

C8_BoundedState ==
  \A h \in HandleIds :
    /\ Len(queue[h]) <= Capacity
    /\ Range(started[h]) \subseteq OpIds(h)

C8_FullQueueStep ==
  \A h \in HandleIds :
    (Len(queue[h]) = Capacity /\ SubmitOn(h))
    => /\ ret'.kind = "ERROR"
       /\ queue' = queue /\ enq' = enq /\ nops' = nops
       /\ pend' = pend /\ counter' = counter

C8_Backpressure ==
  [] C8_BoundedState /\ [][C8_FullQueueStep]_vars

C8_Witness ==
  /\ ret = ErrRet("no available capacity")
  /\ \E h \in HandleIds : Len(queue[h]) = Capacity /\ Len(enq[h]) = Capacity

(* C9 (as stated): every operation that was enqueued is executed by the      *)
(* actor; no enqueued operation is dropped without being executed.           *)
C9_NoEnqueuedDropped ==
  \A h \in HandleIds :
    \A op \in Operations(h) :
      op.id \in Range(started[h]) \/ op \in Range(queue[h])

\* request id was enqueued on h and no Close was enqueued on h before it
NoCloseAhead(h, id) ==
  \E i \in 1 .. Len(enq[h]) :
    /\ enq[h][i].id = id
    /\ ~ IsClose(enq[h][i])
    /\ \A j \in 1 .. (i - 1) : ~ IsClose(enq[h][j])

(* C9 (amended): an operation enqueued with no Close ahead of it in the      *)
(* queue is never dropped, and when the actor is scheduled and the           *)
(* unattended operations ahead of it stop failing it is executed and         *)
(* reaches its terminal outcome.                                             *)
C9_NotDroppedState ==
  \A h \in HandleIds :
    \A op \in Operations(h) :
      NoCloseAhead(h, op.id) =>
        op.id \in Range(started[h]) \/ op \in Range(queue[h])

C9_EnqueuedRunsUnlessClosed ==
  /\ [] C9_NotDroppedState
  /\ \A h \in HandleIds : \A id \in 1 .. RetryCalls :
       NoCloseAhead(h, id) ~> (id \in DoneIds(h))

C9_Witness ==
  \E h \in HandleIds :
    /\ Len(done[h]) >= 2
    /\ \A id \in DoneIds(h) : NoCloseAhead(h, id)

\* what the driver calls in as have made take effect if every failed call
\* took no effect at all
RECURSIVE AppliedBy(_)
AppliedBy(as) ==
  IF as = << >> THEN << >>
  ELSE (IF Head(as).ok THEN Sqls(Head(as).qs) ELSE << >>) \o AppliedBy(Tail(as))

(* C10: a Transaction is atomic on every backend: its queries take effect    *)
(* in staging order, all of them when it succeeds and none of them when one  *)
(* of them fails; the database holds the statements of the successful        *)
(* driver calls and nothing else.                                            *)
C10_TransactionAtomic ==
  \A h \in HandleIds : Created(h) => db[h] = AppliedBy(attempts[h])

(* C11: when transaction() enqueues, the Transaction carries exactly the     *)
(* queries staged since the previous submission, in push order, and the      *)
(* staging object is left empty; a staging object only ever grows by one     *)
(* pushed query at its end or is emptied, so later pushes start a new        *)
(* transaction holding none of the earlier queries.                          *)
C11_SubmitStep ==
  \A h \in HandleIds :
    ( /\ Len(enq'[h]) = Len(enq[h]) + 1
      /\ Last(enq'[h]).kind = "Transaction" )
    => /\ Last(enq'[h]).qs = stage[Last(enq'[h]).owner]
       /\ stage'[Last(enq'[h]).owner] = << >>
       /\ \A o \in Owners \ {Last(enq'[h]).owner} : stage'[o] = stage[o]

C11_StageStep ==
  \A o \in Owners :
    stage'[o] # stage[o]
    => \/ stage'[o] = << >>
       \/ /\ Len(stage'[o]) = Len(stage[o]) + 1
          /\ SubSeq(stage'[o], 1, Len(stage[o])) = stage[o]
          /\ enq' = enq

C11_StagingMoved == [][C11_SubmitStep /\ C11_StageStep]_vars

C11_Witness ==
  \E h \in HandleIds : \E i \in 1 .. Len(enq[h]) :
    /\ enq[h][i].kind = "Transaction"
    /\ Sqls(enq[h][i].qs) = << "s1", "s2" >>
    /\ stage[enq[h][i].owner] = << >>

\* the notifications of kind k delivered so far, as (owner, position)
Notifications(k) ==
  { d \in UNION { {o} \X (1 .. Len(mailbox[o])) : o \in Owners } :
      mailbox[d[1]][d[2]].kind = k }

\* the Connect notifications delivered for handle h
ConnectMsgs(h) == { d \in Notifications("Connect") : mailbox[d[1]][d[2]].h = h }

(* C12: a successful connect inserts the new handle (empty queue, counter 0) *)
(* under the name, then delivers exactly one Connect notification to         *)
(* (owner, session), then starts serving the queue; in every state in which  *)
(* the Connect notification has been delivered find(name) returns a handle.  *)
C12_ConnectOrderState ==
  \A h \in HandleIds :
    /\ Cardinality(ConnectMsgs(h)) <= 1
    /\ ConnectMsgs(h) # {} =>
         Created(h) /\ find_connection(hinfo[h].name) # 0
    /\ actor[h] = "Inserted" =>
         Created(h) /\ ConnectMsgs(h) = {} /\ started[h] = << >>
    /\ (actor[h] \in {"Recv", "Exec", "Sleep", "Terminated"} \/ started[h] # << >>) =>
         Cardinality(ConnectMsgs(h)) = 1

C12_ConnectOrderStep ==
  /\ \A h \in HandleIds :
       hinfo'[h] # hinfo[h] =>
         /\ queue'[h] = << >> /\ counter'[h] = 0
         /\ registry'[hinfo'[h].name] = h
         /\ mailbox' = mailbox
  /\ \A c \in pending :
       (c \notin pending' /\ actor[c.id] = "Inserted") =>
         /\ mailbox'[c.owner] = Append(mailbox[c.owner],
              [session |-> c.session, kind |-> "Connect", id |-> 0, h |-> c.id])
         /\ actor'[c.id] = "Recv"

C12_ConnectOrder ==
  [] C12_ConnectOrderState /\ [][C12_ConnectOrderStep]_vars

C12_Witness ==
  \E h \in HandleIds :
    /\ h = nconn /\ budget.calls < MaxCalls
    /\ ConnectMsgs(h) # {}
    /\ started[h] # << >>

(* C13: a connect attempt that fails delivers exactly one Timeout            *)
(* notification to (owner, session), is not retried, and leaves the registry *)
(* unchanged: no handle is inserted and find(name) returns what it returned. *)
C13_ConnectFailureState ==
  nconn = Cardinality(Notifications("Timeout"))
          + Cardinality({ h \in HandleIds : Created(h) })
          + Cardinality({ c \in pending : actor[c.id] = "None" })

C13_ConnectFailureStep ==
  \A c \in pending :
    (c \notin pending' /\ actor[c.id] = "None") =>
      /\ mailbox'[c.owner] = Append(mailbox[c.owner],
           [session |-> c.session, kind |-> "Timeout", id |-> 0, h |-> 0])
      /\ pending' = pending \ {c}
      /\ registry' = registry /\ hinfo' = hinfo /\ actor' = actor
      /\ nconn' = nconn /\ queue' = queue /\ counter' = counter

C13_ConnectFailure ==
  [] C13_ConnectFailureState /\ [][C13_ConnectFailureStep]_vars

C13_Witness ==
  /\ Notifications("Timeout") # {}
  /\ find_connection("a") # 0 /\ find_connection("b") = 0
  /\ pending = {}
  /\ nconn = Cardinality(Notifications("Timeout")) + 1

\* handle h was registered under its name and a later connect replaced it
Replaced(h) == Created(h) /\ find_connection(hinfo[h].name) # h

(* C14: after a second successful connect under a registered name find(name) *)
(* returns the new handle, while the operations queued on the prior handle,  *)
(* and those submitted later through a copy of it, are still executed by     *)
(* the prior actor, which keeps running until it processes a Close.          *)
C14_ReplacedState ==
  \A g \in HandleIds :
    /\ actor[g] = "Terminated" => \E op \in Range(enq[g]) : IsClose(op)
    /\ \A i \in 1 .. Len(attempts[g]) : attempts[g][i].id \in OpIds(g)

C14_ReplaceStep ==
  /\ \A n \in Names :
       registry'[n] # registry[n] =>
         /\ registry'[n] # 0
         /\ hinfo[registry'[n]] = NoHandle
         /\ hinfo'[registry'[n]].name = n
  /\ \A h \in HandleIds :
       (hinfo'[h] # hinfo[h] /\ registry[hinfo'[h].name] # 0) =>
         /\ actor'[registry[hinfo'[h].name]] = actor[registry[hinfo'[h].name]]
         /\ queue'[registry[hinfo'[h].name]] = queue[registry[hinfo'[h].name]]
         /\ counter'[registry[hinfo'[h].name]] = counter[registry[hinfo'[h].name]]
         /\ cur'[registry[hinfo'[h].name]] = cur[registry[hinfo'[h].name]]
         /\ hinfo'[registry[hinfo'[h].name]] = hinfo[registry[hinfo'[h].name]]

C14_PriorActorKeepsServing ==
  /\ [] C14_ReplacedState
  /\ [][C14_ReplaceStep]_vars
  /\ \A g \in HandleIds : \A id \in 1 .. RetryCalls :
       (Replaced(g) /\ NoCloseAhead(g, id)) ~> (id \in DoneIds(g))

C14_Witness ==
  \E g \in HandleIds :
    /\ Replaced(g)
    /\ find_connection(hinfo[g].name) # 0
    /\ done[g] # << >>
    /\ Len(mailbox[Admin]) >= 2 /\ mailbox[Admin][2].kind = "Connect"

(* C15: the registry is insert-only: find(name) returns absent exactly while *)
(* no connect under that name has succeeded, and once a name is registered   *)
(* find(name) returns a handle in every later state, also after that         *)
(* connection's actor has processed Close and terminated.                    *)
C15_InsertOnlyState ==
  \A n \in Names :
    /\ find_connection(n) = 0
         <=> ~ \E h \in HandleIds : Created(h) /\ hinfo[h].name = n
    /\ find_connection(n) # 0 =>
         /\ Created(find_connection(n))
         /\ hinfo[find_connection(n)].name = n

C15_InsertOnlyStep ==
  \A n \in Names : registry[n] # 0 => registry'[n] # 0

C15_InsertOnly ==
  [] C15_InsertOnlyState /\ [][C15_InsertOnlyStep]_vars

C15_Witness ==
  \E n \in Names :
    /\ find_connection(n) # 0
    /\ actor[find_connection(n)] = "Terminated"
    /\ \E m \in Names : find_connection(m) = 0

\* the positions of the Close requests enqueued on h
ClosePositions(h) == { i \in 1 .. Len(enq[h]) : IsClose(enq[h][i]) }

\* a Close enqueued on h has been taken out of the queue by the actor
CloseDequeued(h) ==
  \E i \in ClosePositions(h) : enq[h][i] \notin Range(queue[h])

(* C16: when the actor dequeues a Close it stops at once: the operations     *)
(* enqueued before the Close have all reached their terminal outcome, and no *)
(* operation behind the Close in the queue is ever executed or replied to.   *)
C16_CloseStopsState ==
  \A h \in HandleIds :
    /\ CloseDequeued(h) =>
         /\ actor[h] = "Terminated"
         /\ queue[h] = << >>
         /\ \A i \in 1 .. Len(enq[h]) :
              (\A j \in ClosePositions(h) : i < j) => enq[h][i].id \in DoneIds(h)
    /\ \A i \in 1 .. Len(enq[h]) :
         (\E j \in ClosePositions(h) : j < i) =>
           /\ enq[h][i].id \notin Range(started[h])
           /\ AttemptsOf(h, enq[h][i].id) = {}
           /\ Delivered(enq[h][i].id) = {}

C16_CloseStopsStep ==
  \A h \in HandleIds :
    (~ CloseDequeued(h) /\ CloseDequeued(h)') =>
      /\ actor[h] = "Recv" /\ actor'[h] = "Terminated"
      /\ mailbox' = mailbox /\ counter' = counter /\ db' = db

C16_CloseStops ==
  [] C16_CloseStopsState /\ [][C16_CloseStopsStep]_vars

C16_Witness ==
  \E h \in HandleIds :
    /\ actor[h] = "Terminated"
    /\ \E i \in 1 .. Len(enq[h]) :
         ~ IsClose(enq[h][i]) /\ \E j \in ClosePositions(h) : j < i

\* the lifecycle state of the actor of handle h
Phase(h) ==
  IF actor[h] \in {"Recv", "Exec", "Sleep"} THEN "Active"
  ELSE IF actor[h] = "Terminated" THEN "Terminated"
  ELSE IF \E c \in pending : c.id = h THEN "Connecting"
  ELSE "Absent"

(* C17: each connection actor goes Connecting -> Active -> Terminated only   *)
(* (a failed connect has no actor): it executes operations only in Active,   *)
(* it enters Terminated when it dequeues Close, and once Terminated it       *)
(* neither executes another operation nor returns to Active.                 *)
C17_LifecycleState ==
  \A h \in HandleIds :
    /\ (cur[h] # NoOp \/ actor[h] \in {"Exec", "Sleep"}) => Phase(h) = "Active"
    /\ Phase(h) = "Terminated" <=> CloseDequeued(h)
    /\ Phase(h) \in {"Absent", "Connecting"} =>
         started[h] = << >> /\ attempts[h] = << >>

C17_LifecycleStep ==
  \A h \in HandleIds :
    /\ Phase(h)' # Phase(h) =>
         << Phase(h), Phase(h)' >> \in
           { << "Absent", "Connecting" >>, << "Connecting", "Active" >>,
             << "Connecting", "Absent" >>, << "Active", "Terminated" >> }
    /\ (started'[h] # started[h] \/ attempts'[h] # attempts[h]) =>
         Phase(h) = "Active"
    /\ << Phase(h), Phase(h)' >> = << "Connecting", "Absent" >> =>
         Cardinality(Notifications("Timeout")') = Cardinality(Notifications("Timeout")) + 1

C17_Lifecycle ==
  [] C17_LifecycleState /\ [][C17_LifecycleStep]_vars

C17_Witness ==
  \E h \in HandleIds :
    /\ Phase(h) = "Terminated"
    /\ done[h] # << >>
    /\ ConnectMsgs(h) # {}
    /\ budget.calls = 0

\* a Lua value of a type get_query_param has no variant for
Unsupported(val) == val.t \notin {"boolean", "number", "integer", "string", "table"}

\* a query or execute call by o on h whose bind arguments hold such a value
BadBindCall(o, h) ==
  \E s \in Sessions, kind \in {"Query", "Execute"}, in \in QueryInputs :
    /\ \E i \in 1 .. Len(in.args) : Unsupported(in.args[i])
    /\ query(o, h, s, in, kind)

(* C18: a query or execute call in which a bind value is of an unsupported   *)
(* kind returns a synchronous error and has no other effect: nothing is      *)
(* enqueued, the counter is unchanged and the actor never sees the request.  *)
C18_BadBindStep ==
  \A o \in Owners, h \in HandleIds :
    BadBindCall(o, h) =>
      /\ ret'.kind = "ERROR"
      /\ UNCHANGED << queue, enq, nops, pend, counter, actor, cur, started,
                      attempts, mailbox, db, stage, registry >>

C18_BadBindState ==
  \A h \in HandleIds : \A i \in 1 .. Len(enq[h]) :
    \A k \in 1 .. Len(enq[h][i].qs) : \A b \in 1 .. Len(enq[h][i].qs[k].binds) :
      enq[h][i].qs[k].binds[b].tag \in
        {"Bool", "Int", "Float", "Text", "Json", "Bytes"}

C18_BadBindRejected ==
  [] C18_BadBindState /\ [][C18_BadBindStep]_vars

C18_Witness ==
  /\ ret = ErrRet("get_query_param")
  /\ nops = 0
  /\ \A h \in HandleIds : counter[h] = 0 /\ queue[h] = << >>

(* C19: the synchronous error returned when the queue is full is of an error *)
(* class (kind) different from that of every other synchronous error a       *)
(* submission can return: a bind construction error, a submission to a       *)
(* terminated connection.                                                    *)
C19_QueueFullKindDistinct ==
  ret = ErrRet("no available capacity") =>
    /\ ret.kind # ErrRet("get_query_param").kind
    /\ ret.kind # ErrRet("channel closed").kind

\* the fields of a decoded table
Fields(t) == DOMAIN t

(* C20: decode maps each delivered result variant to one fixed shape:        *)
(* Error -> {kind, message} with kind DB when the error is a database error  *)
(* and ERROR otherwise; Timeout -> {kind = TIMEOUT, message}; Transaction -> *)
(* {message = "ok"} and Connect -> {message = "success"} with no kind field; *)
(* kind is always one of ERROR, DB, TIMEOUT, on every backend.               *)
C20_DecodeShapesStep ==
  \A o \in Owners :
    (mailbox[o] # << >> /\ mailbox'[o] = Tail(mailbox[o])) =>
      /\ "kind" \in Fields(ret') => ret'.kind \in {"ERROR", "DB", "TIMEOUT"}
      /\ Head(mailbox[o]).kind = "Error" =>
           /\ Fields(ret') = {"kind", "message"}
           /\ ret'.kind = IF Head(mailbox[o]).detail = "Database" THEN "DB" ELSE "ERROR"
      /\ Head(mailbox[o]).kind = "Timeout" =>
           Fields(ret') = {"kind", "message"} /\ ret'.kind = "TIMEOUT"
      /\ Head(mailbox[o]).kind = "Transaction" => ret' = [message |-> "ok"]
      /\ Head(mailbox[o]).kind = "Connect" => ret' = [message |-> "success"]

C20_DecodeShapes == [][C20_DecodeShapesStep]_vars

(* ---------------------------- row decoding ---------------------------- *)
\* the step in which caller o decodes a Rows response of at least one row
DecodesRows(o) ==
  /\ mailbox[o] # << >>
  /\ mailbox'[o] = Tail(mailbox[o])
  /\ Head(mailbox[o]).kind = "Rows"
  /\ Head(mailbox[o]).rows.rows # << >>
\* the result set being decoded, its cell positions and its columns
Decoded(o) == Head(mailbox[o]).rows
RowIds(o) == 1 .. Len(Decoded(o).rows)
ColIds(o) == 1 .. Len(Decoded(o).columns)
Cell(o, i, j) == Decoded(o).rows[i][j]
Unsupported_type(name) == name \in {"DECIMAL", "NUMERIC", "MONEY", "TIMETZ"}
Substituted == { LuaVal(t, d) : t \in {"Int", "Float", "Text", "Bool", "Bytes"},
                                d \in {"0", "", "false", "{}"} }

(* C21: on every backend and for every declared column type, a cell whose    *)
(* storage value is NULL decodes to Null: when rows are returned the cell    *)
(* holds Null and no substituted default, and a result set whose other cells *)
(* all decode is not aborted because of it.                                  *)
C21_NullIsNullStep ==
  \A o \in Owners :
    DecodesRows(o) =>
      /\ "rows" \in Fields(ret') =>
           \A i \in RowIds(o), j \in ColIds(o) :
             Cell(o, i, j).kind = "Null" => ret'.rows[i][j] = LuaNil
      /\ (\A i \in RowIds(o), j \in ColIds(o) :
            \/ Cell(o, i, j).kind = "Null"
            \/ /\ Cell(o, i, j).kind = "Value"
               /\ ~ Unsupported_type(Decoded(o).columns[j].type))
         => "rows" \in Fields(ret')

C21_NullIsNull == [][C21_NullIsNullStep]_vars

(* C22: decoding a result set that has a column declared DECIMAL, NUMERIC,   *)
(* MONEY or TIMETZ aborts the whole batch: decode returns an error whose     *)
(* message names such a column, and no rows. The result sets taken are the   *)
(* ones where the column holds a stored value (a NULL cell is Null whatever  *)
(* the type) and every cell can be accessed.                                 *)
HoldsUnsupported(o) ==
  /\ \E i \in RowIds(o), j \in ColIds(o) :
       /\ Unsupported_type(Decoded(o).columns[j].type)
       /\ Cell(o, i, j).kind \in {"Value", "Bad"}
  /\ \A i \in RowIds(o), j \in ColIds(o) : Cell(o, i, j).kind # "Missing"

C22_UnsupportedAbortsStep ==
  \A o \in Owners :
    (DecodesRows(o) /\ HoldsUnsupported(o))
      => /\ Fields(ret') = {"kind", "message"}
         /\ ret'.kind = "ERROR"
         /\ \E j \in ColIds(o) :
              /\ Unsupported_type(Decoded(o).columns[j].type)
              /\ ret'.message[Len(ret'.message)] = Decoded(o).columns[j].name

C22_UnsupportedAborts == [][C22_UnsupportedAbortsStep]_vars

\* cell (i, j) comes before cell (k, l) in the order process_rows visits them
Before(i, j, k, l) == i < k \/ (i = k /\ j < l)
\* (i, j) is the first cell process_rows cannot access, and nothing before it
\* holds a value of an unsupported type
FirstMissing(o, i, j) ==
  /\ Cell(o, i, j).kind = "Missing"
  /\ \A k \in RowIds(o), l \in ColIds(o) :
       Before(k, l, i, j) =>
         /\ Cell(o, k, l).kind # "Missing"
         /\ ~ (Unsupported_type(Decoded(o).columns[l].type)
               /\ Cell(o, k, l).kind \in {"Value", "Bad"})

(* C23: every batch-fatal decode-time error (unsupported column type, column *)
(* access failure) is returned by decode as a {kind, message} value; a       *)
(* column access failure aborts the whole result set at the first failing    *)
(* cell and the message contains the name of that cell's column.             *)
C23_FatalShapeStep ==
  \A o \in Owners :
    DecodesRows(o) =>
      /\ "rows" \notin Fields(ret') => Fields(ret') = {"kind", "message"}
      /\ \A i \in RowIds(o), j \in ColIds(o) :
           FirstMissing(o, i, j) =>
             /\ Fields(ret') = {"kind", "message"}
             /\ Decoded(o).columns[j].name \in Range(ret'.message)

C23_FatalShape == [][C23_FatalShapeStep]_vars

\* the columns C30 speaks of and the value it names for each
ClaimedDefault(type) ==
  CASE type \in {"INT", "BIGINT", "SMALLINT", "TINYINT"} -> LuaVal("Int", "0")
    [] type \in {"DOUBLE", "FLOAT", "REAL"} -> LuaVal("Float", "0")
    [] type \in {"BOOL", "BOOLEAN"} -> LuaVal("Bool", "false")
    [] type \in {"TEXT", "VARCHAR", "CHAR"} -> LuaVal("Text", "")
    [] type \in {"TIMESTAMP", "DATETIME", "DATE", "TIME", "UUID"} -> LuaNil
Claimed(type) ==
  type \in {"INT", "BIGINT", "SMALLINT", "TINYINT", "DOUBLE", "FLOAT", "REAL",
            "BOOL", "BOOLEAN", "TEXT", "VARCHAR", "CHAR", "TIMESTAMP",
            "DATETIME", "DATE", "TIME", "UUID"}
\* the response being decoded, with cell (i, j) holding a value that decodes
Healed(o, i, j) ==
  [Head(mailbox[o]) EXCEPT !.rows.rows[i][j] = [kind |-> "Value"]]

(* C30: a value-decode error on a non-NULL cell never fails the row or the   *)
(* batch. What decode returns is what it returns for the same result set     *)
(* with a decodable value in that cell, except that the cell itself holds    *)
(* the zero/false/empty default for a numeric, boolean or text column and    *)
(* Null for a timestamp, date, time or UUID column.                          *)
C30_DecodeErrorStep ==
  \A o \in Owners :
    DecodesRows(o) =>
      \A i \in RowIds(o), j \in ColIds(o) :
        (Cell(o, i, j).kind = "Bad" /\ Claimed(Decoded(o).columns[j].type)) =>
          LET want == DecodeResponse(lib, Healed(o, i, j))
          IN IF "rows" \in Fields(want)
             THEN ret' = [rows |-> [want.rows EXCEPT
                            ![i][j] = ClaimedDefault(Decoded(o).columns[j].type)]]
             ELSE ret' = want

C30_DecodeErrorNonFatal == [][C30_DecodeErrorStep]_vars

\* decode has returned two rows: the first with the default of a failed INT
\* decode and Null for a failed TIMESTAMP decode, the second as stored
C30_Witness ==
  /\ lib = "sqlx"
  /\ "rows" \in Fields(ret)
  /\ ret.rows = << << LuaVal("Int", "0"), LuaNil >>,
                   << LuaVal("Int", "wire"), LuaVal("Text", "formatted") >> >>

(* --------------------------- bind values ------------------------------ *)
\* the classification C24 gives for a caller's value: the Bind-Value variant,
\* or Err for a construction error
ClaimedBind(x) ==
  CASE x.t = "boolean" -> "Bool"
    [] x.t = "integer" -> "Int"
    [] x.t = "number" -> "Float"
    [] x.t = "string" -> IF x.brace /\ x.json THEN "Json" ELSE "Text"
    [] x.t = "table" -> IF x.brace /\ x.json THEN "Json" ELSE "Bytes"
    [] OTHER -> "Err"
\* the same, with the case of a table that encode_table rejects
AmendedBind(x) ==
  IF x.t = "table" /\ ~ x.encodes THEN "Raise" ELSE ClaimedBind(x)

\* what a query call with arguments args does when classes are the
\* classifications of its arguments: the request it enqueues on h carries the
\* binds in order, each with its variant and the caller's content; if some
\* argument has none, nothing is enqueued and the first such argument decides
\* between the returned {kind = ERROR} and the raised Lua error
BindsAs(h, args, classes) ==
  LET bad == { i \in 1 .. Len(args) : classes[i] \in {"Err", "Raise"} }
  IN IF bad = {}
     THEN /\ Len(queue'[h]) = Len(queue[h]) + 1
          /\ Last(queue'[h]).qs[1].binds =
               [ i \in 1 .. Len(args) |-> [tag |-> classes[i], v |-> args[i].v] ]
     ELSE /\ queue' = queue
          /\ ret'.kind = IF classes[CHOOSE i \in bad : \A k \in bad : i <= k] = "Raise"
                         THEN "LUA_ERROR" ELSE "ERROR"

(* C24 as stated: bind-value classification is a total function of the       *)
(* caller's value: boolean -> Bool, integer -> Int, float -> Float, a string *)
(* opening with { or [ that parses as JSON -> Json and any other string ->   *)
(* Text with its content, a table whose encoding opens with { or [ and       *)
(* parses -> Json and otherwise -> Bytes, every other kind -> construction   *)
(* error.                                                                    *)
C24_BindTotalStep ==
  \A h \in HandleIds, s \in Sessions, in \in BindInputs, kind \in {"Query", "Execute"} :
    query(Client, h, s, in, kind) =>
      BindsAs(h, in.args, [ i \in 1 .. Len(in.args) |-> ClaimedBind(in.args[i]) ])

C24_BindTotal == [][C24_BindTotalStep]_vars

(* C24 amended: the classification is as stated for every value except a     *)
(* table that cannot be encoded, for which the call raises a Lua error and   *)
(* enqueues nothing.                                                         *)
C24_BindClassifiedStep ==
  \A h \in HandleIds, s \in Sessions, in \in BindInputs, kind \in {"Query", "Execute"} :
    query(Client, h, s, in, kind) =>
      BindsAs(h, in.args, [ i \in 1 .. Len(in.args) |-> AmendedBind(in.args[i]) ])

C24_BindClassified == [][C24_BindClassifiedStep]_vars

\* the call bound a table that cannot be encoded: it raised, and nothing was
\* enqueued
C24_Witness ==
  /\ ret = RaiseRet("encode_table")
  /\ queue[1] = << >>
  /\ budget.calls < BindCalls

(* -------------------------------- stats ------------------------------- *)
\* the names under which a connect has succeeded
Registered == { hinfo[h].name : h \in { g \in HandleIds : Created(g) } }

(* C25: stats() returns one entry for every name registered and no other,    *)
(* each with the current counter of the handle currently registered under    *)
(* that name; a connect that succeeds under a name registers a handle whose  *)
(* counter is 0, whatever is still in flight on the prior handle.            *)
C25_StatsStep ==
  /\ \A o \in Owners :
       stats(o) =>
         /\ DOMAIN ret'.value = Registered
         /\ \A n \in Registered : ret'.value[n] = counter[find_connection(n)]
  /\ \A c \in pending :
       ConnectOk(c) => counter'[find_connection(c.name)'] = 0

C25_Stats == [][C25_StatsStep]_vars

\* stats reported 0 for "a", whose registered handle is the second one, while
\* an operation is still counted on the first; "b" has no entry
C25_Witness ==
  /\ ret.kind = "STATS"
  /\ DOMAIN ret.value = {"a"}
  /\ ret.value["a"] = 0
  /\ find_connection("a") = 2
  /\ counter[1] > 0

(* ------------------------ two connections ----------------------------- *)
\* handles g and h belong to connections of different names
OtherName(g, h) == Created(g) /\ Created(h) /\ hinfo[g].name # hinfo[h].name

\* a step of connection g: its handler dequeues, executes or retries, or a
\* caller submits to it or counts what it submitted
StepOf(g) ==
  \/ Recv(g) \/ Exec(g) \/ Retry(g)
  \/ \E s \in Sessions, kind \in {"Query", "Execute"} :
       query(Client, g, s, IndepInput, kind)
  \/ \E o \in Owners : pend[o] # Idle /\ pend[o].h = g /\ fetch_add(o)

(* C26: connections with different names are independent: no step of one     *)
(* changes the queue or the counter of the other, and an operation enqueued  *)
(* on "b" is executed and brought to its outcome (answered, when attended)   *)
(* whatever the handler of "a" is doing: executing an operation that never   *)
(* returns, or retrying an unattended one.                                   *)
C26_NoInterferenceStep ==
  \A g \in HandleIds, h \in HandleIds :
    (OtherName(g, h) /\ StepOf(g)) =>
      queue'[h] = queue[h] /\ counter'[h] = counter[h]

C26_Answered(id) ==
  /\ id \in DoneIds(2)
  /\ \A op \in Operations(2) :
       (op.id = id /\ op.session # 0) => Delivered(id) # {}

C26_Independent ==
  /\ [][C26_NoInterferenceStep]_vars
  /\ \A id \in 1 .. IndepCalls : (id \in OpIds(2)) ~> C26_Answered(id)

\* the handler of "a" is retrying an unattended operation that failed, and an
\* operation enqueued on "b" after it has been executed and answered
C26_Witness ==
  /\ actor[1] = "Sleep" /\ cur[1].session = 0 /\ cur[1].id = 1
  /\ 2 \in DoneIds(2)
  /\ Delivered(2) # {}

(* ------------------------------- logging ------------------------------ *)
\* the attempts of request id on h that failed, and the log entries of a
\* level written for it
FailedAttempts(h, id) == { i \in AttemptsOf(h, id) : ~ attempts[h][i].ok }
LogEntries(h, id, level) ==
  { j \in 1 .. Len(log[h]) : log[h][j].level = level /\ log[h][j].id = id }

(* C27: for an unattended operation that has failed k >= 1 times in a row,   *)
(* exactly k-1 error-level log entries have been written: the first failure  *)
(* is not logged and every later one is. The count starts from 0 for every   *)
(* dequeued operation, whatever failed before it on the connection.          *)
C27_ErrorLogCount ==
  \A h \in HandleIds :
    \A op \in Operations(h) :
      LET k == Cardinality(FailedAttempts(h, op.id))
      IN /\ Cardinality(LogEntries(h, op.id, "ERROR")) =
              IF op.session = 0 /\ k >= 1 THEN k - 1 ELSE 0
         /\ (cur[h] = op /\ actor[h] \in {"Exec", "Sleep"}) => failed_times[h] = k

\* two unattended operations ran on one connection: the first failed twice
\* and left one error entry, the second failed once and left none
C27_Witness ==
  \E h \in HandleIds :
    \E a \in Operations(h), b \in Operations(h) :
      /\ a.id < b.id /\ a.session = 0 /\ b.session = 0
      /\ Cardinality(FailedAttempts(h, a.id)) = 2
      /\ Cardinality(FailedAttempts(h, b.id)) = 1
      /\ Cardinality(LogEntries(h, a.id, "ERROR")) = 1
      /\ LogEntries(h, b.id, "ERROR") = {}

\* request id has been executed successfully on h
Succeeded(h, id) == \E i \in AttemptsOf(h, id) : attempts[h][i].ok

(* C28: when an operation succeeds after at least one failed attempt exactly *)
(* one recovery notice is logged, and it is logged before the success result *)
(* is delivered to the mailbox; when an operation succeeds on its first      *)
(* attempt no recovery notice is logged.                                     *)
C28_RecoveryNotice ==
  \A h \in HandleIds :
    \A op \in Operations(h) :
      IF Succeeded(h, op.id) /\ FailedAttempts(h, op.id) # {}
      THEN /\ Cardinality(LogEntries(h, op.id, "INFO")) = 1
           /\ \A j \in LogEntries(h, op.id, "INFO") : ~ log[h][j].sent
      ELSE LogEntries(h, op.id, "INFO") = {}

\* positions i in attempts[h] whose driver call failed and was made again at
\* position i + 1 for the same request
Retried(h) ==
  { i \in 1 .. Len(attempts[h]) - 1 :
      /\ attempts[h][i].id = attempts[h][i + 1].id
      /\ ~ attempts[h][i].ok }

(* C29: the wait between a failed attempt of an unattended operation and its *)
(* next attempt is 1 second for every retry: a handler that has failed sleeps *)
(* 1 second however many failures came before, and every retry is made after *)
(* a sleep of 1 second, none sooner.                                         *)
C29_FixedWait ==
  \A h \in HandleIds :
    /\ actor[h] = "Sleep" =>
         /\ cur[h].session = 0
         /\ ~ Last(attempts[h]).ok
         /\ sleeping[h] = 1
    /\ \A i \in Retried(h) : attempts[h][i + 1].waited = 1

\* an unattended operation failed twice and was tried a third time: the
\* second wait, after two failures, was 1 second as the first was
C29_Witness ==
  \E h \in HandleIds :
    \E i \in Retried(h) :
      /\ i + 1 \in Retried(h)
      /\ attempts[h][i].waited = 0
      /\ attempts[h][i + 1].waited = 1
      /\ attempts[h][i + 2].waited = 1

(* --------------------------- first-row schema ------------------------- *)
\* the Lua type a stored value of a column declared with the type name has
\* when the name is resolved by exact match in the name table, a name the
\* table does not hold being Unknown (raw bytes)
TableTag(name) ==
  CASE name = "INT" -> "Int"
    [] name \in {"TEXT", "NVARCHAR"} -> "Text"
    [] OTHER -> "Bytes"

(* C31: the column schema used to decode a result set is that of its first   *)
(* row: every row, whatever its own columns, decodes as it would were it of  *)
(* the first row's columns; each declared type name is resolved by exact,    *)
(* case-sensitive match in the name table, an unknown name being Unknown;    *)
(* and an empty result set decodes to an empty list.                         *)
C31_FirstRowSchemaStep ==
  \A o \in Owners :
    \* o decodes a Rows response: the result is that of the result set with
    \* every row taken to be of the columns of the first
    (/\ mailbox[o] # << >>
     /\ mailbox'[o] = Tail(mailbox[o])
     /\ Head(mailbox[o]).kind = "Rows") =>
      /\ Decoded(o).rows = << >> => ret' = [rows |-> << >>]
      /\ ret' = DecodeResponse(lib,
                  [Head(mailbox[o]) EXCEPT !.rows =
                     [@ EXCEPT !.rows =
                        [i \in DOMAIN @ |->
                           OwnRow(Decoded(o).columns, Decoded(o).rows[i])]]])
      /\ "rows" \in Fields(ret') =>
           \A i \in RowIds(o), j \in ColIds(o) :
             Cell(o, i, j).kind = "Value" =>
               ret'.rows[i][j].tag = TableTag(Decoded(o).columns[j].type)

C31_FirstRowSchema == [][C31_FirstRowSchemaStep]_vars

(* --------------------------- a blocked queue -------------------------- *)
\* while the handler of h sleeps between two attempts of an unattended
\* operation that has failed: the queue is only appended to, a message that
\* arrives from h is of the operation in hand, and a step that is a call of
\* query, execute or close (it takes from the budget of calls) is refused
\* when the queue is full
C32_BlockedStep ==
  \A h \in HandleIds :
    actor[h] = "Sleep" =>
      /\ cur[h].session = 0 /\ failed_times[h] >= 1
      /\ started'[h] = started[h]
      /\ Len(queue[h]) <= Len(queue'[h])
      /\ SubSeq(queue'[h], 1, Len(queue[h])) = queue[h]
      /\ actor'[h] # "Terminated"
      /\ \A o \in Owners : \A i \in (Len(mailbox[o]) + 1) .. Len(mailbox'[o]) :
             mailbox'[o][i].h = h => mailbox'[o][i].id = cur[h].id
      /\ \A id \in { op.id : op \in Range(queue[h]) } :
           id \notin { a.id : a \in Range(attempts'[h]) }
      /\ (budget'.calls < budget.calls /\ Len(queue[h]) = Capacity) =>
           /\ ret' = ErrRet("no available capacity")
           /\ queue'[h] = queue[h] /\ enq'[h] = enq[h] /\ counter'[h] = counter[h]
      /\ (budget'.calls < budget.calls /\ Len(queue[h]) < Capacity) => Len(queue'[h]) = Len(queue[h]) + 1

\* an i-th request was enqueued on h, with no Close ahead of it
Reachable(h, i) ==
  /\ i <= Len(enq[h])
  /\ \A j \in 1 .. (i - 1) : ~ IsClose(enq[h][j])

\* the handler has dealt with the i-th request enqueued on h: it has executed
\* it to its outcome, or has terminated if it is a Close
Handled(h, i) ==
  /\ i <= Len(enq[h])
  /\ IF IsClose(enq[h][i]) THEN actor[h] = "Terminated"
     ELSE enq[h][i].id \in DoneIds(h)

\* the handler takes the requests in the order of the queue, none passed over
InQueueOrder(h) ==
  \A i \in 1 .. Len(started[h]) : started[h][i] = enq[h][i].id

(* C32: while an unattended operation keeps failing (its handler sleeps      *)
(* between two attempts), no operation queued behind it on that connection   *)
(* is dequeued, executed or answered, a queued Close does not terminate the  *)
(* handler, and submissions go on filling the queue until it holds Capacity  *)
(* requests, after which they are rejected; once the unattended operation    *)
(* succeeds the requests behind it are taken in queue order: each is         *)
(* executed to its outcome and a Close terminates the handler.               *)
C32_HeadOfLineBlocking ==
  /\ [][C32_BlockedStep]_vars
  /\ [](\A h \in HandleIds : InQueueOrder(h))
  /\ \A i \in 2 .. BlockedRecv :
       (actor[1] = "Sleep" /\ Reachable(1, i)) ~> Handled(1, i)

\* the unattended operation has failed twice, the queue behind it is full,
\* with a Close in it, and the last submission was rejected
C32_Witness ==
  /\ actor[1] = "Sleep" /\ failed_times[1] = 2
  /\ Len(queue[1]) = Capacity
  /\ \E op \in Range(queue[1]) : IsClose(op)
  /\ ret = ErrRet("no available capacity")

(* ------------------------ a refused transaction ---------------------- *)
\* the statement sql is staged by o, or is in a request enqueued on a handle
Staged(o, sql) == \E i \in 1 .. Len(stage[o]) : stage[o][i].sql = sql
Enqueued(sql) ==
  \E h \in HandleIds : \E op \in Range(enq[h]) :
    \E i \in 1 .. Len(op.qs) : op.qs[i].sql = sql
\* a driver call was made with the statement
Ran(sql) ==
  \E h \in HandleIds : \E a \in Range(attempts[h]) :
    \E i \in 1 .. Len(a.qs) : a.qs[i].sql = sql

C33_RefusedStep ==
  /\ \A o \in Owners, h \in HandleIds, s \in Sessions :
       (transaction(o, h, s) /\ try_send(h) # "ok") =>
         /\ ret' = ErrRet(try_send(h))
         /\ counter' = counter /\ pend'[o] = Idle
         /\ queue' = queue /\ enq' = enq
         /\ stage'[o] = << >>
  /\ (~ Staged(Admin, "s3") /\ ~ Enqueued("s3")) =>
       (~ Staged(Admin, "s3") /\ ~ Enqueued("s3"))'

(* C33: when transaction() fails to enqueue (queue full or handler           *)
(* terminated) the caller gets a synchronous error, nothing is enqueued and  *)
(* no counter changes, no increment is left pending, and the staging object  *)
(* is left empty; the staged queries are gone for good: they are in no       *)
(* queue, they are never staged again, and no driver call is ever made with  *)
(* them.                                                                     *)
C33_RefusedTransactionDiscards ==
  /\ [][C33_RefusedStep]_vars
  /\ [](~ Enqueued("s3") => ~ Ran("s3") /\ \A h \in HandleIds : "s3" \notin Range(db[h]))

\* the transaction of the staged s3 was refused by a full queue: s3 is neither
\* staged nor enqueued
C33_Witness ==
  /\ ret = ErrRet("no available capacity")
  /\ budget.calls = DiscardCalls - 1
  /\ ~ Staged(Admin, "s3") /\ ~ Enqueued("s3")
  /\ Len(queue[1]) = Capacity /\ counter[1] = Capacity

(* ------------------------ a terminated handler ----------------------- *)
\* the step is a call of query, execute, transaction or close by o on h
SubmitsTo(o, h) ==
  \/ \E s \in Sessions, in \in QueryInputs, kind \in {"Query", "Execute"} :
       query(o, h, s, in, kind)
  \/ \E s \in Sessions : transaction(o, h, s)
  \/ close(o, h)

C34_AfterCloseStep ==
  \A h \in HandleIds :
    actor[h] = "Terminated" =>
      /\ actor'[h] = "Terminated"
      /\ queue'[h] = << >> /\ enq'[h] = enq[h]
      /\ (\A o \in Owners : pend[o].h # h) => counter'[h] = counter[h]
      /\ \A o \in Owners :
           SubmitsTo(o, h) =>
             /\ ret'.kind \in {"ERROR", "LUA_ERROR"}
             /\ pend'[o] = Idle
             /\ \A q \in Owners : mailbox'[q] = mailbox[q]

(* C34: once a connection's handler has terminated by processing Close, it   *)
(* stays terminated, and every later query, execute, transaction or close    *)
(* submitted through that handle (also when find still returns it) returns   *)
(* an error at once, enqueues nothing and leaves no increment pending, so    *)
(* that the counter changes no more once the calls that had enqueued before  *)
(* the termination have made their increment.                                *)
C34_AfterClose == [][C34_AfterCloseStep]_vars

\* a call on the handle find returns for "a" was refused because its handler
\* had terminated
C34_Witness ==
  /\ ret = ErrRet("channel closed")
  /\ find_connection("a") = 1
  /\ actor[1] = "Terminated"
  /\ \E i \in 1 .. Len(enq[1]) : IsClose(enq[1][i])

(* ----------------------- Close and the counter ----------------------- *)
\* the operations enqueued on h behind the first Close
BehindClose(h) ==
  { i \in 1 .. Len(enq[h]) :
      /\ ~ IsClose(enq[h][i])
      /\ \E j \in 1 .. (i - 1) : IsClose(enq[h][j]) }

C35_CloseStep ==
  \A h \in HandleIds :
    /\ \A o \in Owners :
         close(o, h) =>
           /\ counter' = counter /\ pend' = pend
           /\ IF actor[h] # "Terminated" /\ Len(queue[h]) < Capacity
              THEN /\ ret' = TrueRet
                   /\ queue'[h] = Append(queue[h], Last(enq'[h]))
                   /\ IsClose(Last(enq'[h]))
              ELSE /\ ret'.kind = "ERROR"
                   /\ queue' = queue /\ enq' = enq
    /\ (actor[h] # "Terminated" /\ actor'[h] = "Terminated") =>
         /\ IsClose(Head(queue[h]))
         /\ counter' = counter

C35_CloseState ==
  \A h \in HandleIds :
    /\ \A i \in BehindClose(h) :
         /\ enq[h][i].id \notin Range(started[h])
         /\ Delivered(enq[h][i].id) = {}
    /\ (actor[h] = "Terminated" /\ \A o \in Owners : pend[o].h # h) =>
         counter[h] = Cardinality(BehindClose(h))

(* C35: Close is not counted as in-flight work: a close call changes no      *)
(* counter and leaves no increment pending, and is refused with an error     *)
(* when the queue is full; the handler's processing of a Close changes no    *)
(* counter. An operation enqueued behind a Close is never started or         *)
(* answered, and once the handler has terminated and the calls that had      *)
(* enqueued have made their increment, the counter is the number of          *)
(* operations that were enqueued behind the Close, in every later state.     *)
C35_CloseNotCounted == [][C35_CloseStep]_vars /\ [] C35_CloseState

\* the handler has terminated with one operation behind the Close, and the
\* counter is 1
C35_Witness ==
  /\ actor[1] = "Terminated"
  /\ \A o \in Owners : pend[o].h # 1
  /\ Cardinality(BehindClose(1)) = 1
  /\ counter[1] = 1
  /\ Len(done[1]) = 1

(* --------------------- enqueue first, count later -------------------- *)
\* the callers that have enqueued on h and have not yet made their increment
InWindow(h) == { o \in Owners : pend[o].h = h }

(* C36: a submitter enqueues first and increments the counter in a later     *)
(* step, so in every reachable state the counter of a handle is the number   *)
(* of operations enqueued whose increment has happened minus the number that *)
(* reached a terminal outcome; it is never below minus the number of         *)
(* submitters between their enqueue and their increment, and it is the       *)
(* number of queued plus executing operations whenever no submitter is in    *)
(* that window and no Close has been enqueued.                               *)
C36_CounterIdentity ==
  \A h \in HandleIds :
    Created(h) =>
      /\ counter[h] =
           (Cardinality(Operations(h)) - Cardinality(InWindow(h))) - Len(done[h])
      /\ counter[h] >= 0 - Cardinality(InWindow(h))
      /\ (InWindow(h) = {} /\ \A i \in 1 .. Len(enq[h]) : ~ IsClose(enq[h][i])) =>
           counter[h] = Len(queue[h]) + Cardinality(Executing(h))

\* the operation a submitter enqueued has reached its outcome before the
\* submitter made its increment: the counter is -1
C36_Witness ==
  \E h \in HandleIds :
    /\ InWindow(h) # {}
    /\ counter[h] = -1
    /\ Len(done[h]) = Cardinality(Operations(h))

(* ------------------------ one result per request --------------------- *)
\* the results delivered for the i-th request enqueued on h that are in the
\* mailbox of its owner with the session it was submitted with
Addressed(h, i) ==
  { d \in Delivered(enq[h][i].id) :
      /\ d[1] = enq[h][i].owner
      /\ mailbox[d[1]][d[2]].session = enq[h][i].session
      /\ mailbox[d[1]][d[2]].h = h }

\* the i-th request enqueued on h is an attended operation
Attended(h, i) ==
  /\ i <= Len(enq[h])
  /\ ~ IsClose(enq[h][i])
  /\ enq[h][i].session # 0

C37_AtMostOne ==
  \A h \in HandleIds : \A i \in 1 .. Len(enq[h]) :
    Attended(h, i) =>
      /\ Cardinality(Delivered(enq[h][i].id)) <= 1
      /\ Addressed(h, i) = Delivered(enq[h][i].id)

(* C37: when the handler is scheduled and every driver call returns, every   *)
(* attended operation that was enqueued with no Close ahead of it, the       *)
(* unattended operations ahead of it failing only finitely often, eventually *)
(* has exactly one result delivered, to its owner and with the session it    *)
(* was submitted with; at no time has it more than one result, or a result   *)
(* addressed otherwise.                                                      *)
C37_OneResultEach ==
  /\ [] C37_AtMostOne
  /\ \A i \in 1 .. BlockedRecv :
       (Attended(1, i) /\ Reachable(1, i))
         ~> (i <= Len(enq[1]) /\ Cardinality(Addressed(1, i)) = 1)

\* the attended query enqueued behind an unattended one that failed twice
\* has its one result, an error, in the mailbox of its owner
C37_Witness ==
  /\ Attended(1, 2)
  /\ Cardinality(FailedAttempts(1, 1)) = 2
  /\ Cardinality(Addressed(1, 2)) = 1
  /\ \E d \in Addressed(1, 2) : mailbox[d[1]][d[2]].kind = "Error"

(* ------------------------ a retried transaction ---------------------- *)
\* op is an unattended Transaction of h that failed, was retried and has
\* succeeded, and the only request the handler of h has executed
RetriedAlone(h, op) ==
  /\ op.kind = "Transaction" /\ op.session = 0
  /\ FailedAttempts(h, op.id) # {}
  /\ Succeeded(h, op.id)
  /\ \A i \in 1 .. Len(attempts[h]) : attempts[h][i].id = op.id

(* C38: on every backend, when an unattended Transaction that failed at some *)
(* statement has been retried until it succeeded, each of its statements has *)
(* taken effect on the database exactly once, in staging order: a failed     *)
(* attempt leaves nothing applied that the retry applies again.              *)
C38_RetriedTransactionOnce ==
  \A h \in HandleIds :
    \A op \in Operations(h) :
      RetriedAlone(h, op) => db[h] = Sqls(op.qs)

====
